---- MODULE Spec2Model ----
(***************************************************************************)
(* A model of giftbitrage_bot.py: the paginated Tonnel fetchers, the       *)
(* Portals depth lookup, the four scoring strategies (with the Tonnel      *)
(* floor pass of calculate_flips) and scan_and_find.                       *)
(*                                                                         *)
(* Conventions.                                                            *)
(*  - A Python value is a record [t, s, n]: t is its type ("none", "str",  *)
(*    "num", "list"), s the characters of a str, n the value of a number.  *)
(*  - A str is a sequence of one-character tokens; "rsquo" stands for the  *)
(*    typographic apostrophe U+2019 and "x" for any non-numeric letter.    *)
(*  - Prices are whole numbers of TON; the whole number n stands for the  *)
(*    float n.  Amounts computed from prices (cost, revenue, profit,       *)
(*    profit_percent) are doubles, computed operation by operation in the  *)
(*    order of the source, each result rounded as the machine rounds it.   *)
(*  - A dict is a sequence of [k, v] entries with distinct keys, in        *)
(*    insertion order (the order Python iterates a dict in).               *)
(***************************************************************************)
EXTENDS Integers, Sequences, FiniteSets, TLC

(***************************************************************************)
(* Python floats.  A float is an IEEE-754 double, here the record          *)
(* [neg, m, e] of value (-1)^neg * m * 2^e, where m is a whole number in   *)
(* [2^52, 2^53) written as four limbs of 14 bits, least significant first; *)
(* zero is DZero.  Every operation gives the exact result rounded to the   *)
(* nearest double, ties to even, as the machine does.  The amounts of the  *)
(* program are far from the overflow and underflow thresholds, so there    *)
(* are no infinities, NaNs or subnormals; -0.0 is not told from 0.0 (the   *)
(* two compare equal in Python).                                           *)
(***************************************************************************)
Base == 16384
LimbBits == 14
SigLimbs == 4
SigBits == 53

Pow2(k) == 2^k

\* limb i of a whole number, 0 beyond its length
Limb(a, i) == IF i \in 1..Len(a) THEN a[i] ELSE 0

\* carry propagation: each limb brought into 0..Base-1 (one more limb than v)
CarryOf(v) ==
    LET c[i \in 0..Len(v)] == IF i = 0 THEN 0 ELSE (v[i] + c[i - 1]) \div Base
    IN  [i \in 1..(Len(v) + 1) |->
            IF i <= Len(v) THEN (v[i] + c[i - 1]) % Base ELSE c[Len(v)]]

Carry(v) == CHOOSE r \in {CarryOf(w) : w \in {v}} : TRUE

\* column k of the schoolbook product of two significands
Column(a, b, k) == Limb(a, 1) * Limb(b, k) + Limb(a, 2) * Limb(b, k - 1) + Limb(a, 3) * Limb(b, k - 2) + Limb(a, 4) * Limb(b, k - 3)

BigMul(a, b) == Carry([k \in 1..(2 * SigLimbs - 1) |-> Column(a, b, k)])

BigLess(a, b) ==
    \E i \in 1..(Len(a) + Len(b)) :
        /\ Limb(a, i) < Limb(b, i)
        /\ \A j \in (i + 1)..(Len(a) + Len(b)) : Limb(a, j) = Limb(b, j)

BigAdd(a, b) == Carry([i \in 1..(Len(a) + Len(b)) |-> Limb(a, i) + Limb(b, i)])

\* a - b for a >= b
BigSub(a, b) == Carry([i \in 1..(Len(a) + Len(b)) |-> Limb(a, i) - Limb(b, i)])

\* the number of bits of a limb, and of a whole number
LimbLen(d) == IF d = 0 THEN 0 ELSE CHOOSE n \in 1..LimbBits : Pow2(n - 1) <= d /\ d < Pow2(n)

TopLimb(a) ==
    IF \A i \in DOMAIN a : a[i] = 0 THEN 0
    ELSE CHOOSE i \in DOMAIN a : a[i] # 0 /\ \A j \in DOMAIN a : j > i => a[j] = 0

BitLen(a) == IF TopLimb(a) = 0 THEN 0 ELSE LimbBits * (TopLimb(a) - 1) + LimbLen(a[TopLimb(a)])

ShiftLeft(a, k) ==
    Carry([i \in 1..(Len(a) + k \div LimbBits) |->
              Limb(a, i - k \div LimbBits) * Pow2(k % LimbBits)])

ShiftRight(a, k) ==
    [i \in 1..Len(a) |->
        Limb(a, i + k \div LimbBits) \div Pow2(k % LimbBits)
        + (Limb(a, i + 1 + k \div LimbBits) % Pow2(k % LimbBits)) * Pow2(LimbBits - (k % LimbBits))]

\* bit j (from 0), and whether any bit below bit j is set
Bit(a, j) == (Limb(a, j \div LimbBits + 1) \div Pow2(j % LimbBits)) % 2

AnyBelow(a, j) ==
    \/ \E i \in 1..(j \div LimbBits) : Limb(a, i) # 0
    \/ Limb(a, j \div LimbBits + 1) % Pow2(j % LimbBits) # 0

Sig(a) == [i \in 1..SigLimbs |-> Limb(a, i)]

Double(neg, m, e) == [neg |-> neg, m |-> m, e |-> e]
DZero == Double(FALSE, <<0, 0, 0, 0>>, 0)
IsZero(f) == f.m = <<0, 0, 0, 0>>

\* round to nearest, ties to even, when the lowest s bits of M are dropped
RoundsUp(M, s) == Bit(M, s - 1) = 1 /\ (AnyBelow(M, s - 1) \/ Bit(M, s) = 1)

Renormalised(neg, q, e) ==
    IF Bit(q, SigBits) = 1 THEN Double(neg, Sig(ShiftRight(q, 1)), e + 1)
    ELSE Double(neg, Sig(q), e)

\* the double nearest to (-1)^neg * M * 2^e, where M has n bits
Rounded(neg, M, e, n) ==
    IF n = 0 THEN DZero
    ELSE IF n <= SigBits THEN Double(neg, Sig(ShiftLeft(M, SigBits - n)), e - (SigBits - n))
    ELSE IF ~RoundsUp(M, n - SigBits)
         THEN Double(neg, Sig(ShiftRight(M, n - SigBits)), e + (n - SigBits))
    ELSE CHOOSE r \in {Renormalised(neg, q, e + (n - SigBits)) :
                          q \in {BigAdd(ShiftRight(M, n - SigBits), <<1>>)}} : TRUE

Round(neg, M, e) ==
    CHOOSE r \in {Rounded(neg, p[1], e, p[2]) : p \in {<<v, BitLen(v)>> : v \in {M}}} : TRUE

\* float(n) of a whole number n
FromInt(n) ==
    Round(n < 0,
          IF n < 0 THEN <<(0 - n) % Base, ((0 - n) \div Base) % Base, (0 - n) \div (Base * Base)>>
          ELSE <<n % Base, (n \div Base) % Base, n \div (Base * Base)>>,
          0)

\* the floats of the small whole numbers, computed once (`@@ <<>>` turns the
\* rule into an explicit table of its values; the tables below do the same)
SmallInts == (0 - 128)..128
SmallFloats == [n \in SmallInts |-> FromInt(n)] @@ <<>>
DInt(n) == IF n \in SmallInts THEN SmallFloats[n] ELSE FromInt(n)

Negate(f) == IF IsZero(f) THEN f ELSE [f EXCEPT !.neg = ~f.neg]

\* beyond this difference of exponents the smaller operand is below half a
\* unit in the last place of the larger one, and the sum is the larger one
MaxShift == 60

\* f + g for f.e >= g.e, with A = f.m shifted onto the exponent of g
AddMagnitudes(f, g, A) ==
    IF f.neg = g.neg THEN Round(f.neg, BigAdd(A, g.m), g.e)
    ELSE IF BigLess(A, g.m) THEN Round(g.neg, BigSub(g.m, A), g.e)
    ELSE Round(f.neg, BigSub(A, g.m), g.e)

AddAligned(f, g) ==
    CHOOSE r \in {AddMagnitudes(f, g, A) : A \in {ShiftLeft(f.m, f.e - g.e)}} : TRUE

AddValues(f, g) ==
    IF IsZero(f) THEN g
    ELSE IF IsZero(g) THEN f
    ELSE IF f.e >= g.e THEN (IF f.e - g.e > MaxShift THEN f ELSE AddAligned(f, g))
    ELSE (IF g.e - f.e > MaxShift THEN g ELSE AddAligned(g, f))

\* f + g and f - g
DAdd(f, g) == CHOOSE r \in {AddValues(p[1], p[2]) : p \in {<<f, g>>}} : TRUE
DSub(f, g) == CHOOSE r \in {AddValues(p[1], Negate(p[2])) : p \in {<<f, g>>}} : TRUE

\* f * g
MulValues(f, g) ==
    IF IsZero(f) \/ IsZero(g) THEN DZero
    ELSE Round(f.neg # g.neg, BigMul(f.m, g.m), f.e + g.e)

DMul(f, g) == CHOOSE r \in {MulValues(p[1], p[2]) : p \in {<<f, g>>}} : TRUE

\* one step of the long division of significands: s.r the remainder (doubled
\* after the step), s.q the quotient bits so far
DivBit(b, s) ==
    IF BigLess(s.r, b)
    THEN [r |-> Sig(BigAdd(s.r, s.r)), q |-> Sig(BigAdd(s.q, s.q))]
    ELSE [r |-> Sig(Carry([k \in 1..SigLimbs |-> 2 * (s.r[k] - b[k])])),
          q |-> Sig(Carry([k \in 1..SigLimbs |-> 2 * s.q[k] + (IF k = 1 THEN 1 ELSE 0)]))]

DivBits(b, from, n) ==
    LET s[i \in 0..n] ==
            IF i = 0 THEN from
            ELSE CHOOSE t \in {DivBit(b, u) : u \in {s[i - 1]}} : TRUE
    IN  s[n]

\* 56 quotient bits of a / b, in 8 runs of 7
DivRuns(a, b) ==
    LET s[j \in 0..8] ==
            IF j = 0 THEN [r |-> a, q |-> <<0, 0, 0, 0>>]
            ELSE CHOOSE t \in {DivBits(b, u, 7) : u \in {s[j - 1]}} : TRUE
    IN  s[8]

\* the quotient bits followed by a sticky bit for a non-zero remainder
Quotient(f, g, s) ==
    Round(f.neg # g.neg,
          Carry([k \in 1..SigLimbs |->
                    2 * s.q[k] + (IF k = 1 /\ s.r # <<0, 0, 0, 0>> THEN 1 ELSE 0)]),
          f.e - g.e - 56)

DivValues(f, g) ==
    IF IsZero(f) THEN DZero
    ELSE CHOOSE r \in {Quotient(f, g, s) : s \in {DivRuns(f.m, g.m)}} : TRUE

\* f / g for g # 0
DDiv(f, g) == CHOOSE r \in {DivValues(p[1], p[2]) : p \in {<<f, g>>}} : TRUE

\* |f| < |g|
MagLess(f, g) ==
    IF IsZero(g) THEN FALSE
    ELSE IF IsZero(f) THEN TRUE
    ELSE f.e < g.e \/ (f.e = g.e /\ BigLess(f.m, g.m))

\* f < g, f <= g, f > g
DLess(f, g) ==
    IF IsZero(f) /\ IsZero(g) THEN FALSE
    ELSE IF IsZero(f) THEN ~g.neg
    ELSE IF IsZero(g) THEN f.neg
    ELSE IF f.neg # g.neg THEN f.neg
    ELSE IF f.neg THEN MagLess(g, f)
    ELSE MagLess(f, g)

DLeq(f, g) == ~DLess(g, f)
DGreater(f, g) == DLess(g, f)

(***************************************************************************)
(* Program constants.                                                      *)
(***************************************************************************)
\* COMMISSION_RATE_TONNEL = 0.06: the double nearest to 6/100
COMMISSION_RATE_TONNEL == DDiv(DInt(6), DInt(100))
\* COMMISSION_RATE_PORTALS = 0.05
COMMISSION_RATE_PORTALS == DDiv(DInt(5), DInt(100))
\* TRANSFER_FEE = 0.15
TRANSFER_FEE == DDiv(DInt(15), DInt(100))
\* limit=30 of getGifts / getAuctions and the `len(page) < 30` test
PageLimit == 30
\* max_pages=5 passed to fetch_tonnel_auctions by scan_and_find
AuctionMaxPages == 5
\* max_pages=10 passed to fetch_tonnel_gifts by scan_and_find
GiftMaxPages == 10

(***************************************************************************)
(* Python values.                                                          *)
(***************************************************************************)
PyNone == [t |-> "none", s |-> <<>>, n |-> 0]
PyStr(s) == [t |-> "str", s |-> s, n |-> 0]
PyNum(n) == [t |-> "num", s |-> <<>>, n |-> n]
\* a non-empty list such as [1]: a value of a non-scalar type
PyList == [t |-> "list", s |-> <<>>, n |-> 0]

\* bool(v)
Truthy(v) ==
    CASE v.t = "none" -> FALSE
      [] v.t = "str" -> v.s # <<>>
      [] v.t = "num" -> v.n # 0
      [] OTHER -> TRUE

\* a or b
PyOr(a, b) == IF Truthy(a) THEN a ELSE b

\* an Optional[float]
Absent == [some |-> FALSE, v |-> 0]
Some(x) == [some |-> TRUE, v |-> x]

(***************************************************************************)
(* float(v): a number is itself; a str is stripped of surrounding          *)
(* whitespace and must be an optional sign followed by decimal digits,     *)
(* else ValueError; None and a list give TypeError.                        *)
(***************************************************************************)
Digits == {"0", "1", "2", "3", "4", "5", "6", "7", "8", "9"}

DigitVal(c) ==
    CASE c = "0" -> 0 [] c = "1" -> 1 [] c = "2" -> 2 [] c = "3" -> 3
      [] c = "4" -> 4 [] c = "5" -> 5 [] c = "6" -> 6 [] c = "7" -> 7
      [] c = "8" -> 8 [] c = "9" -> 9

RECURSIVE DigitsVal(_)
DigitsVal(s) ==
    IF s = <<>> THEN 0
    ELSE 10 * DigitsVal(SubSeq(s, 1, Len(s) - 1)) + DigitVal(s[Len(s)])

\* the whitespace characters of the alphabet: the space and the tab
Whitespace == {" ", "\t"}

RECURSIVE Strip(_)
Strip(s) ==
    IF s = <<>> THEN s
    ELSE IF s[1] \in Whitespace THEN Strip(Tail(s))
    ELSE IF s[Len(s)] \in Whitespace THEN Strip(SubSeq(s, 1, Len(s) - 1))
    ELSE s

AllDigits(s) == s # <<>> /\ \A i \in DOMAIN s : s[i] \in Digits

ParseFloat(str) ==
    LET s == Strip(str)
        signed == s # <<>> /\ s[1] \in {"-", "+"}
        body == IF signed THEN Tail(s) ELSE s
    IN  IF AllDigits(body)
        THEN [err |-> "none",
              v |-> IF signed /\ s[1] = "-" THEN 0 - DigitsVal(body) ELSE DigitsVal(body)]
        ELSE [err |-> "ValueError", v |-> 0]

Float(v) ==
    CASE v.t = "num" -> [err |-> "none", v |-> v.n]
      [] v.t = "str" -> ParseFloat(v.s)
      [] OTHER -> [err |-> "TypeError", v |-> 0]

(***************************************************************************)
(* normalise_name: re.sub(r"[\s\-'’]", "", name).lower()                   *)
(* "\t" is a tab (matched by \s) and "rsquo" is U+2019.  Beyond ASCII the   *)
(* names hold "Sigma" (U+03A3), "sigma" (U+03C3), "fsigma" (U+03C2, the     *)
(* final form), "DoubleC" (U+2102, an upper-case letter that has no         *)
(* lower-case mapping), "hyphen" (U+2010) and "lsquo" (U+2018); the pattern *)
(* removes neither of the last two.                                         *)
(***************************************************************************)
\* a variant of StripChars without the typographic apostrophe
StripCharsAscii == {" ", "\t", "-", "'"}

StripChars == {" ", "\t", "-", "'", "rsquo"}

\* the lower-case mapping of one character; a character without one (a
\* lower-case letter, "DoubleC", a sign) maps to itself
LowerChar(c) ==
    CASE c = "A" -> "a"
      [] c = "B" -> "b"
      [] c = "M" -> "m"
      [] c = "Sigma" -> "sigma"
      [] OTHER -> c

\* the cased letters, and the characters str.lower() looks through when it
\* decides on the form of a capital sigma
Cased == {"A", "a", "B", "b", "M", "m", "x", "Sigma", "sigma", "fsigma", "DoubleC"}
CaseIgnorable == {"'", "rsquo", "lsquo"}

\* whether the capital sigma at position i stands in the Final_Sigma context:
\* a cased letter before it and none after it, case-ignorable characters
\* looked through on both sides
FinalSigma(s, i) ==
    /\ \E j \in 1..(i - 1) :
          /\ s[j] \in Cased
          /\ \A k \in (j + 1)..(i - 1) : s[k] \in CaseIgnorable
    /\ ~\E j \in (i + 1)..Len(s) :
          /\ s[j] \in Cased
          /\ \A k \in (i + 1)..(j - 1) : s[k] \in CaseIgnorable

\* s.lower()
Lower(s) ==
    [i \in DOMAIN s |->
        IF s[i] = "Sigma" /\ FinalSigma(s, i) THEN "fsigma" ELSE LowerChar(s[i])]

\* a variant of normalise_name whose substitution removes only the first
\* matching character (re.sub with count=1)
normalise_nameFirstOnly(name) ==
    LET hits == {i \in DOMAIN name : name[i] \in StripChars}
        kept == IF hits = {} THEN name
                ELSE LET h == CHOOSE i \in hits : \A j \in hits : i <= j
                     IN  [i \in 1..(Len(name) - 1) |->
                             IF i < h THEN name[i] ELSE name[i + 1]]
    IN  Lower(kept)

normalise_name(name) ==
    CHOOSE key \in {Lower(kept) : kept \in {SelectSeq(name, LAMBDA c : c \notin StripChars)}} : TRUE

(***************************************************************************)
(* Dicts in insertion order.                                               *)
(***************************************************************************)
DictHas(d, k) == \E i \in DOMAIN d : d[i].k = k

\* d.get(k, default)
DictGet(d, k, default) ==
    IF DictHas(d, k) THEN d[CHOOSE i \in DOMAIN d : d[i].k = k].v ELSE default

\* d[k] = v
DictPut(d, k, v) ==
    IF DictHas(d, k)
    THEN [i \in DOMAIN d |-> IF d[i].k = k THEN [k |-> k, v |-> v] ELSE d[i]]
    ELSE Append(d, [k |-> k, v |-> v])

DictKeys(d) == {d[i].k : i \in DOMAIN d}

(***************************************************************************)
(* GiftCandidate and the arithmetic shared by the scoring strategies.      *)
(* name and model are strs; backdrop and symbol are Python values;         *)
(* price_buy, profit_absolute and profit_percent are doubles; price_sell   *)
(* is the sell price as the strategy read it.                              *)
(***************************************************************************)
GiftCandidate(name, model, backdrop, symbol, price_buy, price_sell, profit_absolute, profit_percent, market_buy, market_sell, clean) ==
    [name |-> name, model |-> model, backdrop |-> backdrop, symbol |-> symbol,
     price_buy |-> price_buy, price_sell |-> price_sell,
     profit_absolute |-> profit_absolute, profit_percent |-> profit_percent,
     market_buy |-> market_buy, market_sell |-> market_sell, clean |-> clean]

\* 1 + COMMISSION_RATE_x and 1 - COMMISSION_RATE_x, and 100.0
OnePlusTonnel == DAdd(DInt(1), COMMISSION_RATE_TONNEL)
OnePlusPortals == DAdd(DInt(1), COMMISSION_RATE_PORTALS)
OneMinusTonnel == DSub(DInt(1), COMMISSION_RATE_TONNEL)
OneMinusPortals == DSub(DInt(1), COMMISSION_RATE_PORTALS)
Hundred == DInt(100)

\* (profit / cost) * 100.0 for cost # 0
Percent(profit, cost) == DMul(DDiv(profit, cost), Hundred)

\* profit_percent < min_profit_percent
PercentBelow(pp, min_profit_percent) == DLess(pp, DInt(min_profit_percent))

\* what one iteration of a scoring loop does: `continue`, append a candidate, or raise
NoCandidate == GiftCandidate(<<>>, <<>>, PyStr(<<>>), PyStr(<<>>), DZero, 0, DZero, DZero, "", "", TRUE)
Skip == [kind |-> "skip", cand |-> NoCandidate, err |-> "none"]
Emit(c) == [kind |-> "emit", cand |-> c, err |-> "none"]
Raise(e) == [kind |-> "raise", cand |-> NoCandidate, err |-> e]

\* a function's outcome: the list it returns, or the exception it raises
Returned(out) == [err |-> "none", out |-> out]
Raised(e) == [err |-> e, out |-> <<>>]

\* normalise_name(v) of a Python value: re.sub raises TypeError unless v is a str
NormaliseValue(v) ==
    IF v.t = "str" THEN [err |-> "none", v |-> normalise_name(v.s)]
    ELSE [err |-> "TypeError", v |-> <<>>]

(***************************************************************************)
(* list.sort(key=lambda c: c.profit_absolute, reverse=True): a stable sort *)
(* in descending order (equal keys keep their original order).             *)
(***************************************************************************)
\* a variant of InsertDesc that puts a candidate ahead of those of equal
\* profit (a sort that is not stable)
InsertDescAheadOfEqual(sorted, c) ==
    LET ahead == {i \in DOMAIN sorted : DGreater(sorted[i].profit_absolute, c.profit_absolute)}
        k == Cardinality(ahead)
    IN  SubSeq(sorted, 1, k) \o <<c>> \o SubSeq(sorted, k + 1, Len(sorted))

InsertDesc(sorted, c) ==
    LET ahead == {i \in DOMAIN sorted : DLeq(c.profit_absolute, sorted[i].profit_absolute)}
        k == Cardinality(ahead)
    IN  SubSeq(sorted, 1, k) \o <<c>> \o SubSeq(sorted, k + 1, Len(sorted))

\* a variant that leaves the list as it was built (no sort)
Unsorted(cands) == cands

RECURSIVE SortFrom(_, _, _)
SortFrom(cands, i, acc) ==
    IF i > Len(cands) THEN acc
    ELSE SortFrom(cands, i + 1, InsertDesc(acc, cands[i]))

SortByProfitDesc(cands) == SortFrom(cands, 1, <<>>)

(***************************************************************************)
(* A scoring loop: the iterations do not depend on one another, so the     *)
(* loop returns the candidates of the iterations that append one, in       *)
(* order, unless an iteration raises: then the first exception leaves the  *)
(* function.                                                               *)
(***************************************************************************)
IsEmit(r) == r.kind = "emit"
CandidateOf(rs, i) == rs[i].cand
EmittedOf(es) == [i \in DOMAIN es |-> CandidateOf(es, i)]
FirstRaiseOf(rs) ==
    rs[CHOOSE i \in DOMAIN rs :
          /\ rs[i].kind = "raise"
          /\ \A j \in 1..(i - 1) : rs[j].kind # "raise"].err

LoopEnds(rs) ==
    IF \E i \in DOMAIN rs : rs[i].kind = "raise"
    THEN Raised(FirstRaiseOf(rs))
    ELSE Returned(EmittedOf(SelectSeq(rs, IsEmit)))

\* the iterations are run once each (`@@ <<>>` lists their results)
LoopOutcome(rs) == CHOOSE outcome \in {LoopEnds(run) : run \in {rs @@ <<>>}} : TRUE

\* float(v) as an Optional: absent when v is None or float() raises
OptionalOf(parsed) == IF parsed.err = "none" THEN Some(parsed.v) ELSE Absent
FloatOrAbsent(v) == IF v.t = "none" THEN Absent ELSE OptionalOf(Float(v))

(***************************************************************************)
(* calculate_auction_flips                                                 *)
(***************************************************************************)
FirstPresent(a, b) == IF a.some THEN a ELSE b

\* the bid price of an auction: highestBid.amount, else price or startPrice
AuctionBuyPrice(auction) ==
    FirstPresent(IF auction.highestBid.isdict
                 THEN FloatOrAbsent(auction.highestBid.amount) ELSE Absent,
                 FloatOrAbsent(PyOr(auction.price, auction.startPrice)))

\* a variant of AuctionSellPrice that prefers the floor price
AuctionSellPriceFloorFirst(prices) == FirstPresent(prices.floor, prices.second)

\* second_price if available, otherwise floor_price
AuctionSellPrice(prices) == FirstPresent(prices.second, prices.floor)

\* revenue = sell_price * (1 - COMMISSION_RATE_PORTALS),
\* cost = buy_price * (1 + COMMISSION_RATE_TONNEL),
\* profit = revenue - cost - TRANSFER_FEE
AuctionProfit(buy_price, sell_price) ==
    CHOOSE sums \in {[cost |-> p[2], profit |-> DSub(DSub(p[1], p[2]), TRANSFER_FEE)] :
                        p \in {<<DMul(DInt(sell_price), OneMinusPortals),
                                 DMul(DInt(buy_price), OnePlusTonnel)>>}} : TRUE

\* cost, profit and profit_percent = (profit / cost) * 100.0, which the code
\* computes once `profit <= 0` has not skipped the auction
AuctionArithmetic(buy_price, sell_price) ==
    CHOOSE sums \in {[cost |-> a.cost, profit |-> a.profit,
                      percent |-> IF DLeq(a.profit, DZero) \/ IsZero(a.cost) THEN DZero
                                  ELSE Percent(a.profit, a.cost)] :
                        a \in {AuctionProfit(buy_price, sell_price)}} : TRUE

\* the sums of the price pairs met most often, computed once
AuctionPairs == {0, 8, 9, 10} \X {0, 3, 11, 12, 14, 19, 20}
AuctionTable == [p \in AuctionPairs |-> AuctionArithmetic(p[1], p[2])] @@ <<>>
AuctionSums(buy_price, sell_price) ==
    IF <<buy_price, sell_price>> \in AuctionPairs THEN AuctionTable[<<buy_price, sell_price>>]
    ELSE AuctionArithmetic(buy_price, sell_price)

\* a variant of AuctionCandidate that reports the raw bid as price_buy
AuctionCandidateRawBid(auction, gift_name, model_name, buy_price, sell_price, sums, min_profit_percent, clean) ==
    IF DLeq(sums.profit, DZero) THEN Skip
    ELSE IF IsZero(sums.cost) THEN Raise("ZeroDivisionError")
    ELSE IF PercentBelow(sums.percent, min_profit_percent) THEN Skip
    ELSE Emit(GiftCandidate(gift_name, model_name,
                            PyOr(auction.backdrop, PyStr(<<>>)),
                            PyOr(auction.symbol, PyStr(<<>>)),
                            DInt(buy_price),
                            sell_price, sums.profit, sums.percent,
                            "Tonnel (auction)", "Portals", clean))

\* the filters and the candidate, once both prices are known
AuctionCandidate(auction, gift_name, model_name, buy_price, sell_price, sums, min_profit_percent, clean) ==
    IF DLeq(sums.profit, DZero) THEN Skip
    ELSE IF IsZero(sums.cost) THEN Raise("ZeroDivisionError")
    ELSE IF PercentBelow(sums.percent, min_profit_percent) THEN Skip
    ELSE Emit(GiftCandidate(gift_name, model_name,
                            PyOr(auction.backdrop, PyStr(<<>>)),
                            PyOr(auction.symbol, PyStr(<<>>)),
                            sums.cost,
                            sell_price, sums.profit, sums.percent,
                            "Tonnel (auction)", "Portals", clean))

\* a variant of AuctionPriced that flags every auction candidate clean
AuctionPricedAlwaysClean(auction, gift_name, model_name, buy_price, sell_price, min_profit_percent, clean_status) ==
    IF ~sell_price.some THEN Skip
    ELSE CHOOSE flip \in
            {AuctionCandidate(auction, gift_name, model_name, buy_price, sell_price.v,
                              sums, min_profit_percent, TRUE) :
                sums \in {AuctionSums(buy_price, sell_price.v)}} : TRUE

AuctionPriced(auction, gift_name, model_name, buy_price, sell_price, min_profit_percent, clean_status) ==
    IF ~sell_price.some THEN Skip
    ELSE CHOOSE flip \in
            {AuctionCandidate(auction, gift_name, model_name, buy_price, sell_price.v,
                              sums, min_profit_percent,
                              DictGet(clean_status, normalise_name(gift_name), TRUE)) :
                sums \in {AuctionSums(buy_price, sell_price.v)}} : TRUE

\* portals_prices.get((gift_name, model_name)) with the names as the auction
\* gives them: a list cannot be hashed (TypeError); the keys of portals_prices
\* are pairs of strs, so a key holding a number finds nothing
AuctionLookup(auction, gift_name, model_name, buy_price, portals_prices, min_profit_percent, clean_status) ==
    IF ~Truthy(gift_name) \/ ~Truthy(model_name) THEN Skip
    ELSE IF ~buy_price.some THEN Skip
    ELSE IF gift_name.t = "list" \/ model_name.t = "list" THEN Raise("TypeError")
    ELSE IF gift_name.t # "str" \/ model_name.t # "str" THEN Skip
    ELSE IF ~DictHas(portals_prices, <<gift_name.s, model_name.s>>) THEN Skip
    ELSE AuctionPriced(auction, gift_name.s, model_name.s, buy_price.v,
             AuctionSellPrice(DictGet(portals_prices, <<gift_name.s, model_name.s>>,
                                      [floor |-> Absent, second |-> Absent])),
             min_profit_percent, clean_status)

AuctionFlip(auction, portals_prices, min_profit_percent, clean_status) ==
    IF ~auction.isdict THEN Skip
    ELSE AuctionLookup(auction, PyOr(auction.gift_name, auction.name), auction.model,
                       AuctionBuyPrice(auction), portals_prices,
                       min_profit_percent, clean_status)

calculate_auction_flips(auctions, portals_prices, min_profit_percent, clean_status) ==
    LoopOutcome([i \in DOMAIN auctions |->
                    AuctionFlip(auctions[i], portals_prices, min_profit_percent,
                                clean_status)])

(***************************************************************************)
(* calculate_portals_internal_flips                                        *)
(***************************************************************************)
\* a variant of InternalProfit that charges the transfer fee
InternalProfitWithTransferFee(floor_price, second_price) ==
    CHOOSE sums \in {[cost |-> p[2], profit |-> DSub(DSub(p[1], p[2]), TRANSFER_FEE)] :
                        p \in {<<DMul(DInt(second_price), OneMinusPortals),
                                 DMul(DInt(floor_price), OnePlusPortals)>>}} : TRUE

\* revenue = second_price * (1 - COMMISSION_RATE_PORTALS),
\* cost = floor_price * (1 + COMMISSION_RATE_PORTALS), profit = revenue - cost
InternalProfit(floor_price, second_price) ==
    CHOOSE sums \in {[cost |-> p[2], profit |-> DSub(p[1], p[2])] :
                        p \in {<<DMul(DInt(second_price), OneMinusPortals),
                                 DMul(DInt(floor_price), OnePlusPortals)>>}} : TRUE

\* cost, profit and profit_percent, which the code computes once
\* `profit <= 0` has not skipped the entry
InternalArithmetic(floor_price, second_price) ==
    CHOOSE sums \in {[cost |-> a.cost, profit |-> a.profit,
                      percent |-> IF DLeq(a.profit, DZero) \/ IsZero(a.cost) THEN DZero
                                  ELSE Percent(a.profit, a.cost)] :
                        a \in {InternalProfit(floor_price, second_price)}} : TRUE

\* the sums of the price pairs met most often, computed once
InternalPairs == {0, 3, 10, 11, 12} \X {11, 12, 14, 20}
InternalTable == [p \in InternalPairs |-> InternalArithmetic(p[1], p[2])] @@ <<>>
InternalSums(floor_price, second_price) ==
    IF <<floor_price, second_price>> \in InternalPairs
    THEN InternalTable[<<floor_price, second_price>>]
    ELSE InternalArithmetic(floor_price, second_price)

InternalCandidate(key, second_price, sums, min_profit_percent) ==
    IF DLeq(sums.profit, DZero) THEN Skip
    ELSE IF IsZero(sums.cost) THEN Raise("ZeroDivisionError")
    ELSE IF PercentBelow(sums.percent, min_profit_percent) THEN Skip
    ELSE Emit(GiftCandidate(key[1], key[2], PyStr(<<>>), PyStr(<<>>),
                            sums.cost, second_price, sums.profit, sums.percent,
                            "Portals", "Portals", TRUE))

InternalFlip(entry, min_profit_percent) ==
    IF ~entry.v.floor.some \/ ~entry.v.second.some THEN Skip
    ELSE CHOOSE flip \in
            {InternalCandidate(entry.k, entry.v.second.v, sums, min_profit_percent) :
                sums \in {InternalSums(entry.v.floor.v, entry.v.second.v)}} : TRUE

calculate_portals_internal_flips(portals_prices, min_profit_percent) ==
    LoopOutcome([i \in DOMAIN portals_prices |->
                    InternalFlip(portals_prices[i], min_profit_percent)])

(***************************************************************************)
(* calculate_model_flips.  clean_status is [given, d]: given is FALSE when *)
(* the argument is None.  `order` is the order in which the loop meets the *)
(* joined keys (the iteration order of a Python set).                      *)
(***************************************************************************)
\* cost = price_buy * (1.0 + COMMISSION_RATE_TONNEL),
\* proceeds = price_sell * (1.0 - COMMISSION_RATE_PORTALS),
\* profit_absolute = proceeds - cost, then profit_absolute -= TRANSFER_FEE
\* as the two markets differ
ModelProfit(price_buy, price_sell) ==
    CHOOSE sums \in {[cost |-> p[1], profit |-> DSub(DSub(p[2], p[1]), TRANSFER_FEE)] :
                        p \in {<<DMul(DInt(price_buy), OnePlusTonnel),
                                 DMul(DInt(price_sell), OneMinusPortals)>>}} : TRUE

\* cost, profit and profit_percent, which the code computes once `cost <= 0`
\* has not skipped the key
ModelArithmetic(price_buy, price_sell) ==
    CHOOSE sums \in {[cost |-> a.cost, profit |-> a.profit,
                      percent |-> IF DLeq(a.cost, DZero) THEN DZero
                                  ELSE Percent(a.profit, a.cost)] :
                        a \in {ModelProfit(price_buy, price_sell)}} : TRUE

\* the sums of the price pairs met most often, computed once
ModelPairs == {0, 9, 10, 12, 14} \X {10, 11, 12, 20}
ModelTable == [p \in ModelPairs |-> ModelArithmetic(p[1], p[2])] @@ <<>>
ModelSums(price_buy, price_sell) ==
    IF <<price_buy, price_sell>> \in ModelPairs THEN ModelTable[<<price_buy, price_sell>>]
    ELSE ModelArithmetic(price_buy, price_sell)

ModelCandidate(key, price_sell, sums, min_profit_percent, clean) ==
    IF DLeq(sums.cost, DZero) THEN Skip
    ELSE IF DLess(sums.profit, DZero)
            \/ PercentBelow(sums.percent, min_profit_percent) THEN Skip
    ELSE Emit(GiftCandidate(key[1], key[2], PyStr(<<>>), PyStr(<<>>),
                            sums.cost, price_sell, sums.profit, sums.percent,
                            "Tonnel", "Portals", clean))

\* a variant of ModelFlip that also scores the reverse direction (buy at the
\* lower Portals floor, sell at the Tonnel floor)
ModelFlipBothWays(key, price_tonnel, price_portal, min_profit_percent, clean_status) ==
    IF price_tonnel = price_portal THEN Skip
    ELSE IF price_portal < price_tonnel
    THEN CHOOSE flip \in
            {ModelCandidate(key, price_tonnel, sums, min_profit_percent, TRUE) :
                sums \in {ModelSums(price_portal, price_tonnel)}} : TRUE
    ELSE CHOOSE flip \in
            {ModelCandidate(key, price_portal, sums, min_profit_percent,
                            IF clean_status.given THEN DictGet(clean_status.d, key[1], TRUE)
                            ELSE TRUE) :
                sums \in {ModelSums(price_tonnel, price_portal)}} : TRUE

\* only price_tonnel < price_portal is scored: buy on Tonnel, sell on Portals
ModelFlip(key, price_tonnel, price_portal, min_profit_percent, clean_status) ==
    IF ~(price_tonnel < price_portal) THEN Skip
    ELSE CHOOSE flip \in
            {ModelCandidate(key, price_portal, sums, min_profit_percent,
                            IF clean_status.given THEN DictGet(clean_status.d, key[1], TRUE)
                            ELSE TRUE) :
                sums \in {ModelSums(price_tonnel, price_portal)}} : TRUE

calculate_model_flips(tonnel_model_floors, portals_model_floors, min_profit_percent, clean_status, order) ==
    Returned(SortByProfitDesc(LoopOutcome(
        [i \in DOMAIN order |->
            ModelFlip(order[i], DictGet(tonnel_model_floors, order[i], 0),
                      DictGet(portals_model_floors, order[i], 0),
                      min_profit_percent, clean_status)]).out))

(***************************************************************************)
(* calculate_flips                                                         *)
(***************************************************************************)
\* first loop, one gift: clean_status.setdefault(short_name, not bool(signature)),
\* where short_name = normalise_name(name) raises for a name that is no str;
\* [err, out] with out the clean_status after the iteration
FlipsCleanStep(clean_status, gift, short_name) ==
    IF ~gift.isdict \/ ~Truthy(gift.name) THEN Returned(clean_status)
    ELSE IF short_name.err # "none" THEN Raised(short_name.err)
    ELSE IF DictHas(clean_status, short_name.v) THEN Returned(clean_status)
    ELSE Returned(DictPut(clean_status, short_name.v, ~Truthy(gift.signature)))

RECURSIVE FlipsCleanFrom(_, _, _)
FlipsCleanFrom(tonnel_gifts, i, clean_status) ==
    IF i > Len(tonnel_gifts) \/ clean_status.err # "none" THEN clean_status
    ELSE CHOOSE after \in
            {FlipsCleanFrom(tonnel_gifts, i + 1, next) :
                next \in {FlipsCleanStep(clean_status.out, tonnel_gifts[i], short_name) :
                             short_name \in {NormaliseValue(tonnel_gifts[i].name)}}} : TRUE

FlipsCleanStatus(tonnel_gifts) == FlipsCleanFrom(tonnel_gifts, 1, Returned(<<>>))

\* the floor-map reducer: keep the lower of the stored and the new price
KeepMin(floors, key, price) ==
    IF ~DictHas(floors, key) THEN DictPut(floors, key, price)
    ELSE IF price < DictGet(floors, key, 0) THEN DictPut(floors, key, price)
    ELSE floors

\* second loop, one gift: [err, out] with out the floors after the iteration;
\* float() is guarded by `except ValueError` alone
FlipsFloorsStep(tonnel_floors, gift, short_name, price) ==
    IF ~gift.isdict \/ ~Truthy(gift.name) THEN Returned(tonnel_floors)
    ELSE IF short_name.err # "none" THEN Raised(short_name.err)
    ELSE IF gift.price.t = "none" THEN Returned(tonnel_floors)
    ELSE IF price.err = "ValueError" THEN Returned(tonnel_floors)
    ELSE IF price.err # "none" THEN Raised(price.err)
    ELSE Returned(KeepMin(tonnel_floors, short_name.v, price.v))

RECURSIVE FlipsFloorsFrom(_, _, _)
FlipsFloorsFrom(tonnel_gifts, i, floors) ==
    IF i > Len(tonnel_gifts) \/ floors.err # "none" THEN floors
    ELSE CHOOSE after \in
            {FlipsFloorsFrom(tonnel_gifts, i + 1, next) :
                next \in {FlipsFloorsStep(floors.out, tonnel_gifts[i], read[1], read[2]) :
                             read \in {<<NormaliseValue(tonnel_gifts[i].name),
                                         Float(tonnel_gifts[i].price)>>}}} : TRUE

FlipsTonnelFloors(tonnel_gifts) == FlipsFloorsFrom(tonnel_gifts, 1, Returned(<<>>))

\* cost = price_buy * (1.0 + the buy market's rate),
\* proceeds = price_sell * (1.0 - the sell market's rate),
\* profit_absolute = proceeds - cost: no transfer fee
ItemProfit(market_buy, market_sell, price_buy, price_sell) ==
    CHOOSE sums \in {[cost |-> p[1], profit |-> DSub(p[2], p[1])] :
        p \in {<<DMul(DInt(price_buy),
                      IF market_buy = "Tonnel" THEN OnePlusTonnel ELSE OnePlusPortals),
                 DMul(DInt(price_sell),
                      IF market_sell = "Tonnel" THEN OneMinusTonnel ELSE OneMinusPortals)>>}} : TRUE

\* cost, profit and profit_percent, which the code computes once `cost == 0`
\* has not skipped the key
ItemArithmetic(market_buy, market_sell, price_buy, price_sell) ==
    CHOOSE sums \in {[cost |-> a.cost, profit |-> a.profit,
                      percent |-> IF IsZero(a.cost) THEN DZero
                                  ELSE Percent(a.profit, a.cost)] :
                        a \in {ItemProfit(market_buy, market_sell, price_buy, price_sell)}} : TRUE

\* the sums of the price pairs met most often, computed once
ItemTonnelPrices == {0, 9, 10, 12}
ItemPortalPrices == {5, 9, 10, 11, 12, 13, 14}
ItemDeals ==
    {<<"Tonnel", "Portals", p[1], p[2]>> : p \in ItemTonnelPrices \X ItemPortalPrices}
    \cup {<<"Portals", "Tonnel", p[1], p[2]>> : p \in ItemPortalPrices \X ItemTonnelPrices}
ItemTable == [d \in ItemDeals |-> ItemArithmetic(d[1], d[2], d[3], d[4])] @@ <<>>
ItemSums(market_buy, market_sell, price_buy, price_sell) ==
    IF <<market_buy, market_sell, price_buy, price_sell>> \in ItemDeals
    THEN ItemTable[<<market_buy, market_sell, price_buy, price_sell>>]
    ELSE ItemArithmetic(market_buy, market_sell, price_buy, price_sell)

ItemCandidate(short_name, price_sell, sums, min_profit_percent, market_buy, market_sell, clean) ==
    IF IsZero(sums.cost) THEN Skip
    ELSE IF PercentBelow(sums.percent, min_profit_percent) THEN Skip
    ELSE Emit(GiftCandidate(short_name, <<>>, PyStr(<<>>), PyStr(<<>>),
                            sums.cost, price_sell, sums.profit, sums.percent,
                            market_buy, market_sell, clean))

\* a variant of ItemFlip that also buys on Tonnel when the two floors are equal
ItemFlipOnEqual(short_name, price_tonnel, price_portal, clean_status, min_profit_percent) ==
    IF price_tonnel <= price_portal
    THEN CHOOSE flip \in
            {ItemCandidate(short_name, price_portal, sums, min_profit_percent,
                           "Tonnel", "Portals", DictGet(clean_status, short_name, TRUE)) :
                sums \in {ItemSums("Tonnel", "Portals", price_tonnel, price_portal)}} : TRUE
    ELSE CHOOSE flip \in
            {ItemCandidate(short_name, price_tonnel, sums, min_profit_percent,
                           "Portals", "Tonnel", TRUE) :
                sums \in {ItemSums("Portals", "Tonnel", price_portal, price_tonnel)}} : TRUE

\* third loop, one joined key: buy where the floor is lower
ItemFlip(short_name, price_tonnel, price_portal, clean_status, min_profit_percent) ==
    IF price_tonnel < price_portal
    THEN CHOOSE flip \in
            {ItemCandidate(short_name, price_portal, sums, min_profit_percent,
                           "Tonnel", "Portals", DictGet(clean_status, short_name, TRUE)) :
                sums \in {ItemSums("Tonnel", "Portals", price_tonnel, price_portal)}} : TRUE
    ELSE IF price_portal < price_tonnel
    THEN CHOOSE flip \in
            {ItemCandidate(short_name, price_tonnel, sums, min_profit_percent,
                           "Portals", "Tonnel", TRUE) :
                sums \in {ItemSums("Portals", "Tonnel", price_portal, price_tonnel)}} : TRUE
    ELSE Skip

ItemFlips(order, tonnel_floors, portal_floors, clean_status, min_profit_percent) ==
    LoopOutcome([i \in DOMAIN order |->
                    ItemFlip(order[i], DictGet(tonnel_floors, order[i], 0),
                             DictGet(portal_floors, order[i], 0),
                             clean_status, min_profit_percent)]).out

\* the three loops in order: an exception of an earlier loop leaves the function
FlipsJoin(clean_status, tonnel_floors, portal_floors, min_profit_percent, order) ==
    IF clean_status.err # "none" THEN Raised(clean_status.err)
    ELSE IF tonnel_floors.err # "none" THEN Raised(tonnel_floors.err)
    ELSE Returned(SortByProfitDesc(
             ItemFlips(order, tonnel_floors.out, portal_floors,
                       clean_status.out, min_profit_percent)))

calculate_flips(tonnel_gifts, portal_floors, min_profit_percent, order) ==
    FlipsJoin(FlipsCleanStatus(tonnel_gifts), FlipsTonnelFloors(tonnel_gifts),
              portal_floors, min_profit_percent, order)

\* the orders in which a set can be iterated
Orders(S) ==
    {o \in [1..Cardinality(S) -> S] : \A i, j \in DOMAIN o : i # j => o[i] # o[j]}

(***************************************************************************)
(* fetch_portals_model_prices: the (floor_price, second_price) entry made  *)
(* from one reply of portalsmp.search.                                     *)
(***************************************************************************)
IsPresent(p) == p.some

\* a variant of InBand that keeps every price
InBandOrNot(price, min_price, max_price) == price

InBand(price, min_price, max_price) ==
    IF price.some /\ ~(price.v < min_price \/ price.v > max_price) THEN price ELSE Absent

\* one listing: its price when it is a dict whose price parses and lies in the band
ListingPrice(item, min_price, max_price) ==
    IF ~item.isdict THEN Absent
    ELSE InBand(FloatOrAbsent(item.price), min_price, max_price)

\* floor_price = prices[0], second_price = prices[1], where they exist
FirstTwo(prices) ==
    [floor |-> IF Len(prices) >= 1 THEN prices[1] ELSE Absent,
     second |-> IF Len(prices) > 1 THEN prices[2] ELSE Absent]

ModelPrices(reply, min_price, max_price) ==
    IF reply.kind = "raise" THEN [floor |-> Absent, second |-> Absent]
    ELSE IF reply.kind # "list" THEN [floor |-> Absent, second |-> Absent]
    ELSE FirstTwo(SelectSeq([i \in DOMAIN reply.items |->
                                ListingPrice(reply.items[i], min_price, max_price)],
                            IsPresent))

(***************************************************************************)
(* scan_and_find, step 3: the (gift, model) pairs of the auctions, each    *)
(* once, in the order of their first appearance (model_keys / seen_keys).  *)
(***************************************************************************)
\* the positions of `keyed` that hold a key no earlier position holds
FirstSeen(keyed) ==
    SelectSeq([i \in DOMAIN keyed |-> [i |-> i, key |-> keyed[i]]],
              LAMBDA p : /\ p.key.some
                         /\ \A j \in 1..(p.i - 1) :
                                ~keyed[j].some \/ keyed[j].v # p.key.v)

DistinctKeys(first) == [n \in DOMAIN first |-> first[n].key.v]

\* key = (g_norm, m_norm) of one auction: [err, key], where key is absent when
\* the loop `continue`s and normalise_name raises for a gift or model that is
\* no str
NormalisedPair(g_norm, m_norm) ==
    IF g_norm.err # "none" THEN [err |-> g_norm.err, key |-> Absent]
    ELSE IF m_norm.err # "none" THEN [err |-> m_norm.err, key |-> Absent]
    ELSE [err |-> "none", key |-> Some(<<g_norm.v, m_norm.v>>)]

AuctionKeyOf(auction, gift) ==
    IF ~(auction.isdict /\ Truthy(gift) /\ Truthy(auction.model))
    THEN [err |-> "none", key |-> Absent]
    ELSE CHOOSE key \in
            {NormalisedPair(n[1], n[2]) :
                n \in {<<NormaliseValue(gift), NormaliseValue(auction.model)>>}} : TRUE

\* the keys of the auctions, one per auction, each worked out once
AuctionKeys(auctions) ==
    [i \in DOMAIN auctions |->
        AuctionKeyOf(auctions[i], PyOr(auctions[i].gift_name, auctions[i].name))] @@ <<>>

KeyOf(keyed, i) == keyed[i].key
KeysOf(keyed) == [i \in DOMAIN keyed |-> KeyOf(keyed, i)]

\* the exception of the first auction whose names cannot be normalised
KeysRaise(keyed) ==
    keyed[CHOOSE i \in DOMAIN keyed :
             /\ keyed[i].err # "none"
             /\ \A j \in 1..(i - 1) : keyed[j].err = "none"].err

\* the keys of every auction, seen before or not
EveryKey(keyed) ==
    IF \E i \in DOMAIN keyed : keyed[i].err # "none"
    THEN Raised(KeysRaise(keyed))
    ELSE Returned(LET kept == SelectSeq(KeysOf(keyed), IsPresent)
                  IN  [n \in DOMAIN kept |-> kept[n].v])

\* model_keys: a key is appended when seen_keys does not hold it yet
UnseenKeys(keyed) ==
    IF \E i \in DOMAIN keyed : keyed[i].err # "none"
    THEN Raised(KeysRaise(keyed))
    ELSE Returned(DistinctKeys(FirstSeen(KeysOf(keyed))))

\* a variant of CollectKeys that appends the key of every auction, seen or not
CollectKeysEvery(auctions) ==
    CHOOSE keys \in {EveryKey(keyed) : keyed \in {AuctionKeys(auctions)}} : TRUE

\* the loop of step 3: model_keys, or the exception that leaves the scan
CollectKeys(auctions) ==
    CHOOSE keys \in {UnseenKeys(keyed) : keyed \in {AuctionKeys(auctions)}} : TRUE

(***************************************************************************)
(* scan_and_find, step 5: cleanliness per gift from the plain listings.    *)
(* The loop folds `clean_status.get(short_name, True) and not               *)
(* bool(signature)` over the listings in the order they were fetched.      *)
(***************************************************************************)
\* short_name of one listing: [err, name], where name is absent when the loop
\* `continue`s and normalise_name raises for a name that is no str
GiftShortName(gift) ==
    IF ~(gift.isdict /\ Truthy(gift.name)) THEN [err |-> "none", name |-> Absent]
    ELSE CHOOSE short_name \in
            {[err |-> n.err, name |-> IF n.err = "none" THEN Some(n.v) ELSE Absent] :
                n \in {NormaliseValue(gift.name)}} : TRUE

\* a variant of ScanCleanStep that forgets `current`: the last listing decides
ScanCleanStepLastWins(clean_status, gift, short_name) ==
    IF short_name.err # "none" THEN Raised(short_name.err)
    ELSE IF ~short_name.name.some THEN Returned(clean_status)
    ELSE Returned(DictPut(clean_status, short_name.name.v, ~Truthy(gift.signature)))

\* one iteration: current = clean_status.get(short_name, True);
\* clean_status[short_name] = current and not bool(signature);
\* [err, out] with out the clean_status after the iteration
ScanCleanStep(clean_status, gift, short_name) ==
    IF short_name.err # "none" THEN Raised(short_name.err)
    ELSE IF ~short_name.name.some THEN Returned(clean_status)
    ELSE Returned(DictPut(clean_status, short_name.name.v,
                          DictGet(clean_status, short_name.name.v, TRUE)
                              /\ ~Truthy(gift.signature)))

\* the loop from listing i on; clean_status is bound to its value before the
\* next iteration starts
RECURSIVE ScanCleanFrom(_, _, _)
ScanCleanFrom(tonnel_gifts, i, clean_status) ==
    IF i > Len(tonnel_gifts) \/ clean_status.err # "none" THEN clean_status
    ELSE CHOOSE after \in
            {ScanCleanFrom(tonnel_gifts, i + 1, next) :
                next \in {ScanCleanStep(clean_status.out, tonnel_gifts[i], short_name) :
                             short_name \in {GiftShortName(tonnel_gifts[i])}}} : TRUE

ScanCleanStatus(tonnel_gifts) == ScanCleanFrom(tonnel_gifts, 1, Returned(<<>>))

(***************************************************************************)
(* scan_and_find, step 6: score, combine and sort.                         *)
(***************************************************************************)
ScanCombine(auction_flips, portals_flips) ==
    IF auction_flips.err # "none" THEN Raised(auction_flips.err)
    ELSE IF portals_flips.err # "none" THEN Raised(portals_flips.err)
    ELSE Returned(SortByProfitDesc(auction_flips.out \o portals_flips.out))

\* step 6, given the outcome of the loop of step 5
ScanScoreWith(auctions, portals_prices, clean_status, min_profit_percent) ==
    IF clean_status.err # "none" THEN Raised(clean_status.err)
    ELSE ScanCombine(calculate_auction_flips(auctions, portals_prices, min_profit_percent,
                                             clean_status.out),
                     calculate_portals_internal_flips(portals_prices, min_profit_percent))

\* steps 5 (after the fetch) and 6
ScanScore(auctions, portals_prices, tonnel_gifts, min_profit_percent) ==
    CHOOSE scored \in {ScanScoreWith(auctions, portals_prices, clean_status,
                                     min_profit_percent) :
                          clean_status \in {ScanCleanStatus(tonnel_gifts)}} : TRUE

(***************************************************************************)
(* fetch_tonnel_auctions and fetch_tonnel_gifts: one iteration of the      *)
(* `while page <= max_pages` loop, given the reply to the page request.    *)
(* A reply is [kind, items]: kind "raise" (the client raised), "falsy"     *)
(* (None or an empty container), "str", "num", "dict" (a mapping, items    *)
(* are its keys) or "list".                                                *)
(***************************************************************************)
\* a variant of `page += 1` that asks for the same page again
SamePage(p) == p

\* `page += 1`
NextPage(p) == p + 1

\* a variant of AuctionsPageGot that loses the earlier pages when a request raises
AuctionsPageGotDropping(auctions, reply) ==
    IF reply.kind = "raise" THEN <<>>
    ELSE IF reply.kind # "list" \/ reply.items = <<>> THEN auctions
    ELSE auctions \o reply.items

\* fetch_tonnel_auctions: `auctions` after the iteration
AuctionsPageGot(auctions, reply) ==
    IF reply.kind = "raise" THEN auctions
    ELSE IF reply.kind # "list" \/ reply.items = <<>> THEN auctions
    ELSE auctions \o reply.items

\* fetch_tonnel_auctions: whether the loop requests a further page
AuctionsPageAgain(reply, page, max_pages) ==
    /\ reply.kind = "list" /\ reply.items # <<>>
    /\ ~(Len(reply.items) < PageLimit)
    /\ NextPage(page) <= max_pages

\* fetch_tonnel_gifts: the exception the iteration lets through
\* (list.extend of a number raises TypeError outside the try block)
GiftsPageRaises(reply) ==
    IF reply.kind = "num" THEN "TypeError" ELSE "none"

\* fetch_tonnel_gifts: `all_gifts` after the iteration
GiftsPageGot(all_gifts, reply) ==
    IF reply.kind = "raise" THEN all_gifts
    ELSE IF reply.kind = "falsy" THEN all_gifts
    ELSE IF reply.kind = "str" THEN all_gifts
    ELSE IF reply.kind = "num" THEN all_gifts
    ELSE all_gifts \o reply.items

\* a variant of GiftsPageAgain that goes on after a short page
GiftsPageAgainIgnoringSize(reply, page, max_pages) ==
    /\ reply.kind \notin {"raise", "falsy", "str", "num"}
    /\ NextPage(page) <= max_pages

\* fetch_tonnel_gifts: whether the loop requests a further page
GiftsPageAgain(reply, page, max_pages) ==
    /\ reply.kind \notin {"raise", "falsy", "str", "num"}
    /\ ~(Len(reply.items) < PageLimit)
    /\ NextPage(page) <= max_pages

(***************************************************************************)
(* fetch_portals_floors.  The reply of giftsFloors is [kind, items]: it    *)
(* raises, or returns None/{}/[] ("falsy"), a str, a number, a mapping     *)
(* from names to prices ("dict", items = its entries in order) or a list   *)
(* of records ("list").                                                    *)
(***************************************************************************)
\* mapping format, one entry: result[normalise_name(name)] = price
PortalsFloorsDictStep(result, entry) ==
    IF entry.v.t = "none" THEN Returned(result)
    ELSE IF Float(entry.v).err # "none" THEN Returned(result)
    ELSE Returned(DictPut(result, normalise_name(entry.k), Float(entry.v).v))

\* list format, one item: result[normalise_name(name)] = price
PortalsFloorsListStep(result, item) ==
    IF ~item.isdict THEN Returned(result)
    ELSE IF ~Truthy(item.name) \/ item.price.t = "none" THEN Returned(result)
    ELSE IF Float(item.price).err # "none" THEN Returned(result)
    ELSE IF item.name.t # "str" THEN Raised("TypeError")
    ELSE Returned(DictPut(result, normalise_name(item.name.s), Float(item.price).v))

PortalsFloorsStep(kind, result, item) ==
    IF kind = "dict" THEN PortalsFloorsDictStep(result, item)
    ELSE PortalsFloorsListStep(result, item)

RECURSIVE PortalsFloorsFrom(_, _, _, _)
PortalsFloorsFrom(kind, items, i, result) ==
    IF i > Len(items) \/ result.err # "none" THEN result
    ELSE PortalsFloorsFrom(kind, items, i + 1,
                           PortalsFloorsStep(kind, result.out, items[i]))

fetch_portals_floors(floors) ==
    CASE floors.kind = "raise" -> Raised("ClientError")
      [] floors.kind \in {"falsy", "str"} -> Returned(<<>>)
      [] floors.kind = "num" -> Raised("TypeError")
      [] OTHER -> PortalsFloorsFrom(floors.kind, floors.items, 1, Returned(<<>>))

(***************************************************************************)
(* fetch_tonnel_floors and fetch_tonnel_model_floors.  The reply of        *)
(* filterStatsPretty is [kind, items]: it raises, or returns a non-dict    *)
(* ("nondict"), a dict whose "data" is no dict ("nodata"), or a dict whose *)
(* "data" maps gift keys to gift_data ("data", items = its entries in      *)
(* order).  gift_data is [isdict, info, models]: info is the entry "data"  *)
(* (kind "missing", "nondict" or "dict" with its floorPrice), models the   *)
(* other entries in order, each a model_info [isdict, floorPrice].         *)
(***************************************************************************)
\* fetch_tonnel_floors, one gift: result[normalise_name(gift_key)] = price
TonnelFloorsStep(result, entry) ==
    IF ~entry.v.isdict THEN Raised("AttributeError")
    ELSE IF entry.v.info.kind = "missing" THEN Returned(result)
    ELSE IF entry.v.info.kind = "nondict" THEN Raised("AttributeError")
    ELSE IF entry.v.info.floorPrice.t = "none" THEN Returned(result)
    ELSE IF Float(entry.v.info.floorPrice).err # "none" THEN Returned(result)
    ELSE Returned(DictPut(result, normalise_name(entry.k),
                          Float(entry.v.info.floorPrice).v))

RECURSIVE TonnelFloorsFrom(_, _, _)
TonnelFloorsFrom(data, i, result) ==
    IF i > Len(data) \/ result.err # "none" THEN result
    ELSE TonnelFloorsFrom(data, i + 1, TonnelFloorsStep(result.out, data[i]))

fetch_tonnel_floors(stats) ==
    IF stats.kind \in {"raise", "nondict", "nodata"} THEN Returned(<<>>)
    ELSE TonnelFloorsFrom(stats.items, 1, Returned(<<>>))

\* price < low or price > high, with low = 0.0 and high = inf when not given
OutOfBand(price, min_price, max_price) ==
    \/ price < (IF min_price.some THEN min_price.v ELSE 0)
    \/ max_price.some /\ price > max_price.v

\* fetch_tonnel_model_floors, one model of one gift: keep the minimum
ModelFloorsStep(result, gift_key, model, min_price, max_price) ==
    IF ~model.v.isdict THEN result
    ELSE IF model.v.floorPrice.t = "none" THEN result
    ELSE IF Float(model.v.floorPrice).err # "none" THEN result
    ELSE IF OutOfBand(Float(model.v.floorPrice).v, min_price, max_price) THEN result
    ELSE KeepMin(result, <<normalise_name(gift_key), normalise_name(model.k)>>,
                 Float(model.v.floorPrice).v)

RECURSIVE ModelFloorsOfGift(_, _, _, _, _, _)
ModelFloorsOfGift(result, gift_key, models, j, min_price, max_price) ==
    IF j > Len(models) THEN result
    ELSE ModelFloorsOfGift(
             ModelFloorsStep(result, gift_key, models[j], min_price, max_price),
             gift_key, models, j + 1, min_price, max_price)

RECURSIVE ModelFloorsFrom(_, _, _, _, _)
ModelFloorsFrom(data, i, result, min_price, max_price) ==
    IF i > Len(data) THEN result
    ELSE ModelFloorsFrom(data, i + 1,
             IF ~data[i].v.isdict THEN result
             ELSE ModelFloorsOfGift(result, data[i].k, data[i].v.models, 1,
                                    min_price, max_price),
             min_price, max_price)

fetch_tonnel_model_floors(stats, min_price, max_price) ==
    IF stats.kind \in {"raise", "nondict", "nodata"} THEN Returned(<<>>)
    ELSE Returned(ModelFloorsFrom(stats.items, 1, <<>>, min_price, max_price))

(***************************************************************************)
(* fetch_portals_model_floors: one iteration of the loop over model_keys,  *)
(* given the reply of portalsmp.search(limit=1).  A reply is [kind,        *)
(* items]: it raises, or returns None/[] ("falsy"), a str, a number, a     *)
(* list ("list"), a mapping whose "results" is a list ("results", items =  *)
(* that list) or any other mapping ("dict").                               *)
(***************************************************************************)
\* limit=2 of fetch_portals_model_prices and limit=1 of fetch_portals_model_floors
PricesSearchLimit == 2
FloorsSearchLimit == 1

\* `listings`: the list itself or the "results" of a mapping, else None
FloorListings(reply) ==
    IF reply.kind \in {"list", "results"} THEN reply.items ELSE <<>>

\* the price of listings[0]: `listing.get("price")` of a listing that is no
\* dict raises AttributeError
FirstListingFloor(result, key, listing, min_price, max_price) ==
    IF ~listing.isdict THEN Raised("AttributeError")
    ELSE IF listing.price.t = "none" THEN Returned(result)
    ELSE IF Float(listing.price).err # "none" THEN Returned(result)
    ELSE IF OutOfBand(Float(listing.price).v, min_price, max_price) THEN Returned(result)
    ELSE Returned(DictPut(result, key, Float(listing.price).v))

\* [err, out] with out `result` after the iteration: a failed search and an
\* empty reply leave no entry
PortalsModelFloorsStep(result, key, reply, min_price, max_price) ==
    IF reply.kind = "raise" THEN Returned(result)
    ELSE IF FloorListings(reply) = <<>> THEN Returned(result)
    ELSE FirstListingFloor(result, key, FloorListings(reply)[1], min_price, max_price)

(***************************************************************************)
(* The inputs the model draws from.                                        *)
(***************************************************************************)
\* the longest page of plain listings below PageLimit that a market returns
MaxShort == 2
\* the longest page of auctions drawn freely from AuctionPool
MaxShortAuctions == 1
\* the largest max_pages a paginated fetch is called with directly
MaxPages == 3
\* the full pages of auctions, and of plain listings, in the band of a scan
MaxFullPages == 1

Auction(gift_name, name, model, amount, price, startPrice) ==
    [isdict |-> TRUE, gift_name |-> gift_name, name |-> name, model |-> model,
     highestBid |-> [isdict |-> amount.t # "none", amount |-> amount],
     price |-> price, startPrice |-> startPrice,
     backdrop |-> PyNone, symbol |-> PyNone]

Gift(name, signature, price) ==
    [isdict |-> TRUE, name |-> name, signature |-> signature, price |-> price]

\* an element that is no dict (a key of a mapping reply)
NonDict == [isdict |-> FALSE, name |-> PyNone, signature |-> PyNone, price |-> PyNone]

Listing(price) == [isdict |-> TRUE, price |-> price]

AuctionNoModel == Auction(PyStr(<<"b">>), PyNone, PyNone, PyNone, PyNum(10), PyNone)

AuctionPool ==
    { Auction(PyStr(<<"a", "b">>), PyNone, PyStr(<<"m">>), PyNone, PyNum(10), PyNone),
      Auction(PyNone, PyStr(<<"A", " ", "b">>), PyStr(<<"M">>), PyStr(<<"8">>), PyNone, PyNone),
      AuctionNoModel }

\* a short page of three auctions with two ModelKeys, one of them shared
AuctionTwoKeysPage ==
    << Auction(PyStr(<<"a", "b">>), PyNone, PyStr(<<"m">>), PyNone, PyNum(10), PyNone),
       Auction(PyStr(<<"b">>), PyNone, PyStr(<<"m">>), PyNone, PyNum(9), PyNone),
       Auction(PyNone, PyStr(<<"A", " ", "b">>), PyStr(<<"M">>), PyStr(<<"8">>), PyNone, PyNone) >>

\* a short page whose second auction has a number for its gift name
AuctionNumberNamePage ==
    << Auction(PyStr(<<"a", "b">>), PyNone, PyStr(<<"m">>), PyNone, PyNum(10), PyNone),
       Auction(PyNum(5), PyNone, PyStr(<<"m">>), PyNone, PyNum(9), PyNone) >>

\* a full page is PageLimit copies of one auction
AuctionFullPool == { AuctionNoModel }

GiftPool ==
    { Gift(PyStr(<<"a", "b">>), PyNone, PyNum(10)),
      Gift(PyStr(<<"A", "-", "b">>), PyStr(<<"x">>), PyStr(<<"9">>)) }

GiftFullPool == { Gift(PyStr(<<"a", "b">>), PyNone, PyNum(10)) }

\* a short page whose second listing has a number for its name
GiftNumberNamePage ==
    << Gift(PyStr(<<"a", "b">>), PyNone, PyNum(10)), Gift(PyNum(5), PyNone, PyNum(9)) >>

ShortLists(pool) == UNION {[1..n -> pool] : n \in 1..MaxShort}
ShortAuctionLists == UNION {[1..n -> AuctionPool] : n \in 1..MaxShortAuctions}
FullPages(pool) == {[i \in 1..PageLimit |-> r] : r \in pool}

Reply(kind, items) == [kind |-> kind, items |-> items]

\* tonnelmp.getAuctions: raises, or returns None/[], an error mapping, a str,
\* a number, or a list
AuctionReplies ==
    {Reply(k, <<>>) : k \in {"raise", "falsy", "dict", "str", "num"}}
    \cup {Reply("list", l) : l \in ShortAuctionLists \cup FullPages(AuctionFullPool)
                                  \cup {AuctionTwoKeysPage, AuctionNumberNamePage}}

\* tonnelmp.getGifts: raises, or returns None/[], a str, a number, a mapping
\* (of one key) or a list
GiftReplies ==
    {Reply(k, <<>>) : k \in {"raise", "falsy", "str", "num"}}
    \cup {Reply("dict", <<NonDict>>)}
    \cup {Reply("list", l) : l \in ShortLists(GiftPool) \cup FullPages(GiftFullPool)
                                  \cup {GiftNumberNamePage}}

\* portalsmp.search(limit=2): raises, or returns a mapping or a list
SearchReplies ==
    { Reply("raise", <<>>), Reply("dict", <<>>),
      Reply("list", <<Listing(PyStr(<<"1", "2">>))>>),
      Reply("list", <<Listing(PyNum(12)), Listing(PyNum(14))>>),
      Reply("list", <<Listing(PyNum(0)), Listing(PyStr(<<"1", "4">>))>>),
      Reply("list", <<Listing(PyNum(19)), Listing(PyNum(25))>>),
      Reply("list", <<Listing(PyNum(3)), Listing(PyNum(11))>>) }

\* portalsmp.search(limit=1): raises, or returns None, a mapping with or
\* without a list of "results", or a list
FloorSearchReplies ==
    { Reply("raise", <<>>), Reply("falsy", <<>>), Reply("dict", <<>>),
      Reply("results", <<Listing(PyStr(<<"9">>))>>),
      Reply("list", <<Listing(PyNum(12)), Listing(PyNum(14))>>),
      Reply("list", <<Listing(PyStr(<<"x">>))>>),
      Reply("list", <<Listing(PyNum(25))>>),
      Reply("list", <<NonDict>>) }

\* (min_price, max_price) of a scan
PriceBands == { <<0, 20>> }
\* min_profit_percent of a scan
MinProfits == { 0, 5 }

(***************************************************************************)
(* The arguments the scoring functions are called with directly.           *)
(***************************************************************************)
\* the longest tonnel_gifts / auctions list passed to a scoring function
MaxItems == 2
\* the longest name normalise_name is called with directly
MaxNameLen == 3

\* the characters of those names: letters in both cases and every kind of
\* character the pattern removes
NameChars == {"A", "a", "b", " ", "\t", "-", "'", "rsquo"}
\* the longest name that also holds characters beyond those
MaxWideLen == 2
\* the characters of the wider names: a capital sigma and its two lower-case
\* forms, an upper-case letter without a lower-case mapping, and a hyphen and
\* a quotation mark that the pattern does not remove
WideChars == NameChars \cup {"Sigma", "sigma", "fsigma", "DoubleC", "hyphen", "lsquo"}
Names ==
    UNION {[1..n -> NameChars] : n \in 0..MaxNameLen}
    \cup UNION {[1..n -> WideChars] : n \in 1..MaxWideLen}

KeyAbM == << <<"a", "b">>, <<"m">> >>
KeyBM == << <<"b">>, <<"m">> >>
Entry(k, v) == [k |-> k, v |-> v]
Depth(floor, second) == [floor |-> floor, second |-> second]

Lists(pool) == UNION {[1..n -> pool] : n \in 0..MaxItems}

\* min_profit_percent of a direct call
CalcMinProfits == { -100, -10, 0, 5, 7 }

FlipGiftPool ==
    { Gift(PyStr(<<"a", "b">>), PyNone, PyNum(10)),
      Gift(PyStr(<<"A", "-", "b">>), PyStr(<<"x">>), PyStr(<<"9">>)),
      Gift(PyStr(<<"b">>), PyNone, PyNum(12)),
      Gift(PyStr(<<"b">>), PyNone, PyNum(0)),
      Gift(PyStr(<<"a", "b">>), PyNone, PyStr(<<"x">>)),
      Gift(PyStr(<<"b">>), PyNone, PyList),
      Gift(PyNum(5), PyNone, PyNum(9)) }

PortalFloorMaps ==
    { <<>>,
      <<Entry(<<"a", "b">>, 12)>>,
      <<Entry(<<"a", "b">>, 11)>>,
      <<Entry(<<"a", "b">>, 10)>>,
      <<Entry(<<"a", "b">>, 9), Entry(<<"b">>, 13)>>,
      <<Entry(<<"b">>, 5), Entry(<<"a", "b">>, 14)>> }

TonnelModelFloorMaps ==
    { <<>>,
      <<Entry(KeyAbM, 10)>>,
      <<Entry(KeyAbM, 10), Entry(KeyBM, 12)>>,
      <<Entry(KeyBM, 0)>>,
      <<Entry(KeyAbM, 14), Entry(KeyBM, 9)>> }

PortalsModelFloorMaps ==
    { <<>>,
      <<Entry(KeyAbM, 12)>>,
      <<Entry(KeyBM, 20), Entry(KeyAbM, 12)>>,
      <<Entry(KeyAbM, 10), Entry(KeyBM, 11)>> }

(***************************************************************************)
(* The replies the floor-map builders are given.                           *)
(***************************************************************************)
\* the records of a giftsFloors list
FloorItemPool == FlipGiftPool \cup {NonDict, Gift(PyNone, PyNone, PyNum(5))}

\* the mappings giftsFloors returns
FloorDicts ==
    { <<Entry(<<"a", "b">>, PyNum(10))>>,
      <<Entry(<<"A", "-", "b">>, PyStr(<<"9">>)), Entry(<<"a", "b">>, PyNum(12))>>,
      <<Entry(<<"a", "b">>, PyNum(12)), Entry(<<"A", "-", "b">>, PyStr(<<"9">>))>>,
      <<Entry(<<"a", "b">>, PyNone), Entry(<<"b">>, PyStr(<<"x">>)),
        Entry(<<"a", " ", "b">>, PyList)>> }

PortalsFloorsReplies ==
    {Reply(k, <<>>) : k \in {"raise", "falsy", "str", "num"}}
    \cup {Reply("dict", d) : d \in FloorDicts}
    \cup {Reply("list", l) : l \in Lists(FloorItemPool) \ {<<>>}}

Info(kind, floorPrice) == [kind |-> kind, floorPrice |-> floorPrice]
ModelInfo(floorPrice) == [isdict |-> TRUE, floorPrice |-> floorPrice]
NonDictModelInfo == [isdict |-> FALSE, floorPrice |-> PyNone]
GiftData(info, models) == [isdict |-> TRUE, info |-> info, models |-> models]
NonDictGiftData == [isdict |-> FALSE, info |-> Info("missing", PyNone), models |-> <<>>]

\* the "data" of filterStatsPretty
StatsMaps ==
    { <<>>,
      <<Entry(<<"a", "b">>,
              GiftData(Info("dict", PyNum(10)),
                       <<Entry(<<"m">>, ModelInfo(PyNum(12))),
                         Entry(<<"M">>, ModelInfo(PyStr(<<"1", "1">>)))>>))>>,
      <<Entry(<<"a", "-", "b">>,
              GiftData(Info("dict", PyStr(<<"9">>)),
                       <<Entry(<<"m">>, ModelInfo(PyNum(11)))>>)),
        Entry(<<"a", "b">>,
              GiftData(Info("dict", PyNum(10)),
                       <<Entry(<<"m">>, ModelInfo(PyNum(12)))>>))>>,
      <<Entry(<<"a", "b">>,
              GiftData(Info("dict", PyNum(10)),
                       <<Entry(<<"m">>, ModelInfo(PyNum(12)))>>)),
        Entry(<<"a", "-", "b">>,
              GiftData(Info("dict", PyStr(<<"9">>)),
                       <<Entry(<<"m">>, ModelInfo(PyNum(11)))>>))>>,
      <<Entry(<<"b">>,
              GiftData(Info("missing", PyNone),
                       <<Entry(<<"m">>, NonDictModelInfo),
                         Entry(<<"M">>, ModelInfo(PyNone))>>)),
        Entry(<<"a", "b">>,
              GiftData(Info("dict", PyNone),
                       <<Entry(<<"m">>, ModelInfo(PyStr(<<"x">>)))>>))>>,
      <<Entry(<<"b">>, NonDictGiftData),
        Entry(<<"a", "b">>,
              GiftData(Info("dict", PyNum(10)), <<Entry(<<"m">>, ModelInfo(PyNum(5)))>>))>>,
      <<Entry(<<"a", "b">>,
              GiftData(Info("nondict", PyNone), <<Entry(<<"m">>, ModelInfo(PyNum(5)))>>))>> }

StatsReplies ==
    {Reply(k, <<>>) : k \in {"raise", "nondict", "nodata"}}
    \cup {Reply("data", d) : d \in StatsMaps}

\* (min_price, max_price) of fetch_tonnel_model_floors
ModelFloorBands == { <<Absent, Absent>>, <<Some(10), Some(11)>> }

CleanStatusArgs ==
    { [given |-> FALSE, d |-> <<>>],
      [given |-> TRUE, d |-> <<>>],
      [given |-> TRUE, d |-> <<Entry(<<"a", "b">>, FALSE)>>] }

\* an auction with a backdrop and a symbol
Decorated(auction, backdrop, symbol) ==
    [auction EXCEPT !.backdrop = backdrop, !.symbol = symbol]

FlipAuctionPool ==
    { Auction(PyStr(<<"a", "b">>), PyNone, PyStr(<<"m">>), PyNone, PyNum(10), PyNone),
      Auction(PyStr(<<"a", "b">>), PyNone, PyStr(<<"m">>), PyNum(0), PyNum(10), PyNone),
      Auction(PyNone, PyStr(<<"A", " ", "b">>), PyStr(<<"M">>), PyStr(<<"8">>), PyNone, PyNone),
      Decorated(Auction(PyStr(<<"b">>), PyNone, PyStr(<<"m">>), PyList, PyNum(0), PyStr(<<"9">>)),
                PyNum(5), PyStr(<<"x">>)),
      Auction(PyNum(5), PyNone, PyStr(<<"m">>), PyNone, PyNum(10), PyNone),
      Auction(PyStr(<<"a", "b">>), PyNone, PyList, PyNone, PyNum(10), PyNone) }

DepthMaps ==
    { <<>>,
      <<Entry(KeyAbM, Depth(Some(12), Absent))>>,
      <<Entry(KeyAbM, Depth(Some(12), Some(14)))>>,
      <<Entry(KeyAbM, Depth(Absent, Absent)), Entry(KeyBM, Depth(Some(11), Some(12)))>>,
      <<Entry(KeyBM, Depth(Some(12), Some(14))), Entry(KeyAbM, Depth(Some(10), Some(20)))>>,
      <<Entry(KeyAbM, Depth(Some(12), Some(14))), Entry(KeyBM, Depth(Some(0), Some(14)))>> }

\* model_keys of a direct call of the Portals fetches
ModelKeyLists ==
    { <<>>, <<KeyAbM>>, <<KeyAbM, KeyBM>>, <<KeyBM, KeyAbM, KeyBM>> }

\* (min_price, max_price) of fetch_portals_model_floors
FloorSearchBands == { <<Absent, Absent>>, <<Some(0), Some(20)>> }

(***************************************************************************)
(* The program as a state machine.  From "idle" one of the module's        *)
(* functions is called; the asynchronous ones take one step per request    *)
(* they await, the pure ones return in the step that calls them.           *)
(***************************************************************************)
VARIABLES
    pc,                  \* where the running function is
    fn,                  \* the function that was called
    args,                \* the arguments of a pure function
    page,                \* `page` of the running paginated fetch
    max_pages,           \* `max_pages` of the running paginated fetch
    key_idx,             \* position in model_keys of fetch_portals_model_prices
    calls,               \* every request issued so far, with its reply
    auctions,            \* `auctions` of fetch_tonnel_auctions / scan_and_find
    model_keys,
    portals_prices,
    tonnel_gifts,        \* `all_gifts` of fetch_tonnel_gifts
    ret,                 \* [err, out]: the exception raised or the value returned
    min_price, max_price, min_profit_percent

vars == <<pc, fn, args, page, max_pages, key_idx, calls, auctions, model_keys,
          portals_prices, tonnel_gifts, ret,
          min_price, max_price, min_profit_percent>>

Call(f, arg, reply) == [fn |-> f, arg |-> arg, kind |-> reply.kind, items |-> reply.items]

\* a request search(sort="price_asc", offset=0, limit=limit, ...) for the key
\* at position k of model_keys
SearchCall(k, limit, reply) ==
    [fn |-> "search", arg |-> k, limit |-> limit, kind |-> reply.kind, items |-> reply.items]

Init ==
    /\ pc = "idle"
    /\ fn = "none"
    /\ args = <<>>
    /\ page = 0
    /\ max_pages = 0
    /\ key_idx = 0
    /\ calls = <<>>
    /\ auctions = <<>>
    /\ model_keys = <<>>
    /\ portals_prices = <<>>
    /\ tonnel_gifts = <<>>
    /\ ret = Returned(<<>>)
    /\ min_price = 0
    /\ max_price = 0
    /\ min_profit_percent = 0

\* scan_and_find(min_price, max_price, min_profit_percent) is called
CallScan ==
    /\ pc = "idle"
    /\ fn' = "scan_and_find"
    /\ pc' = "update_auth"
    /\ \E band \in PriceBands : min_price' = band[1] /\ max_price' = band[2]
    /\ min_profit_percent' \in MinProfits
    /\ UNCHANGED <<args, page, max_pages, key_idx, calls, auctions, model_keys,
                   portals_prices, tonnel_gifts, ret>>

\* fetch_tonnel_auctions(max_pages) is called on its own
CallFetchAuctions ==
    /\ pc = "idle"
    /\ fn' = "fetch_tonnel_auctions"
    /\ \E m \in 0..MaxPages :
        /\ max_pages' = m
        /\ pc' = IF 1 <= m THEN "auctions" ELSE "done"
    /\ page' = 1
    /\ UNCHANGED <<args, key_idx, calls, auctions, model_keys, portals_prices,
                   tonnel_gifts, ret, min_price, max_price, min_profit_percent>>

\* fetch_tonnel_gifts(max_pages) is called on its own
CallFetchGifts ==
    /\ pc = "idle"
    /\ fn' = "fetch_tonnel_gifts"
    /\ \E m \in 0..MaxPages :
        /\ max_pages' = m
        /\ pc' = IF 1 <= m THEN "gifts" ELSE "done"
    /\ page' = 1
    /\ UNCHANGED <<args, key_idx, calls, auctions, model_keys, portals_prices,
                   tonnel_gifts, ret, min_price, max_price, min_profit_percent>>

\* scan_and_find, step 1: update_auth returns a token
UpdateAuthReturns ==
    /\ pc = "update_auth"
    /\ calls' = Append(calls, Call("update_auth", 0, Reply("ok", <<>>)))
    /\ pc' = "auctions"
    /\ page' = 1
    /\ max_pages' = AuctionMaxPages
    /\ UNCHANGED <<fn, args, key_idx, auctions, model_keys, portals_prices, tonnel_gifts,
                   ret, min_price, max_price, min_profit_percent>>

\* a variant of UpdateAuthRaises that swallows the exception and goes on to
\* the auctions
UpdateAuthRaisesAndGoesOn ==
    /\ pc = "update_auth"
    /\ calls' = Append(calls, Call("update_auth", 0, Reply("raise", <<>>)))
    /\ pc' = "auctions"
    /\ page' = 1
    /\ max_pages' = AuctionMaxPages
    /\ UNCHANGED <<fn, args, key_idx, auctions, model_keys, portals_prices, tonnel_gifts,
                   ret, min_price, max_price, min_profit_percent>>

\* scan_and_find, step 1: update_auth raises, and scan_and_find re-raises
UpdateAuthRaises ==
    /\ pc = "update_auth"
    /\ calls' = Append(calls, Call("update_auth", 0, Reply("raise", <<>>)))
    /\ pc' = "raised"
    /\ ret' = Raised("AuthError")
    /\ UNCHANGED <<fn, args, page, max_pages, key_idx, auctions, model_keys,
                   portals_prices, tonnel_gifts,
                   min_price, max_price, min_profit_percent>>

\* the replies a page request can get: a scan's band holds at most
\* MaxFullPages full pages
PageReplies(replies) ==
    {r \in replies : fn = "scan_and_find" /\ ~(Len(r.items) < PageLimit)
                        => page <= MaxFullPages}

\* a variant of AfterAuctions that goes on to the plain listings when there
\* is no (gift, model) pair
AfterAuctionsOnToGifts(keys) ==
    IF keys.err # "none"
    THEN /\ pc' = "raised"
         /\ ret' = Raised(keys.err)
         /\ UNCHANGED <<key_idx, model_keys>>
    ELSE IF keys.out = <<>>
    THEN /\ pc' = "gifts"
         /\ UNCHANGED <<key_idx, model_keys, ret>>
    ELSE /\ pc' = "search"
         /\ model_keys' = keys.out
         /\ key_idx' = 1
         /\ UNCHANGED ret

\* scan_and_find after fetch_tonnel_auctions returned, with `keys` the
\* outcome of the loop of step 3: the exception of that loop leaves the scan;
\* return [] when there are no auctions or no (gift, model) pair, else go on
\* to the first search
AfterAuctions(keys) ==
    IF keys.err # "none"
    THEN /\ pc' = "raised"
         /\ ret' = Raised(keys.err)
         /\ UNCHANGED <<key_idx, model_keys>>
    ELSE IF keys.out = <<>>
    THEN /\ pc' = "done"
         /\ ret' = Returned(<<>>)
         /\ UNCHANGED <<key_idx, model_keys>>
    ELSE /\ pc' = "search"
         /\ model_keys' = keys.out
         /\ key_idx' = 1
         /\ UNCHANGED ret

\* one iteration of the loop of fetch_tonnel_auctions.  When the loop ends
\* the fetch returns `auctions`; within scan_and_find (step 2) the scan then
\* goes on to step 3.
GetAuctions ==
    /\ pc = "auctions"
    /\ page <= max_pages
    /\ \E reply \in PageReplies(AuctionReplies) :
        /\ calls' = Append(calls, Call("getAuctions", page, reply))
        /\ auctions' = AuctionsPageGot(auctions, reply)
        /\ IF AuctionsPageAgain(reply, page, max_pages)
           THEN /\ page' = NextPage(page)
                /\ UNCHANGED <<pc, key_idx, model_keys, ret>>
           ELSE IF fn = "fetch_tonnel_auctions"
           THEN /\ pc' = "done"
                /\ ret' = Returned(auctions')
                /\ UNCHANGED <<page, key_idx, model_keys>>
           ELSE /\ AfterAuctions(CollectKeys(auctions'))
                /\ UNCHANGED page
    /\ UNCHANGED <<fn, args, max_pages, portals_prices, tonnel_gifts,
                   min_price, max_price, min_profit_percent>>

\* fetch_portals_model_prices(model_keys, min_price, max_price) is called on
\* its own
CallFetchPortalsModelPrices ==
    /\ pc = "idle"
    /\ fn' = "fetch_portals_model_prices"
    /\ \E keys \in ModelKeyLists :
        /\ model_keys' = keys
        /\ pc' = IF keys = <<>> THEN "done" ELSE "search"
    /\ \E band \in PriceBands : min_price' = band[1] /\ max_price' = band[2]
    /\ key_idx' = 1
    /\ UNCHANGED <<args, page, max_pages, calls, auctions, portals_prices, tonnel_gifts,
                   ret, min_profit_percent>>

\* one iteration of the loop of fetch_portals_model_prices.  When the loop
\* ends the fetch returns `results`; within scan_and_find (step 4) the scan
\* then goes on to step 5.
Search ==
    /\ pc = "search"
    /\ key_idx <= Len(model_keys)
    /\ \E reply \in SearchReplies :
        /\ calls' = Append(calls, SearchCall(key_idx, PricesSearchLimit, reply))
        /\ portals_prices' = DictPut(portals_prices, model_keys[key_idx],
                                     ModelPrices(reply, min_price, max_price))
    /\ IF key_idx < Len(model_keys)
       THEN /\ key_idx' = key_idx + 1
            /\ UNCHANGED <<pc, page, max_pages, ret>>
       ELSE IF fn = "fetch_portals_model_prices"
       THEN /\ pc' = "done"
            /\ ret' = Returned(portals_prices')
            /\ UNCHANGED <<key_idx, page, max_pages>>
       ELSE /\ pc' = "gifts"
            /\ page' = 1
            /\ max_pages' = GiftMaxPages
            /\ UNCHANGED <<key_idx, ret>>
    /\ UNCHANGED <<fn, args, auctions, model_keys, tonnel_gifts,
                   min_price, max_price, min_profit_percent>>

\* fetch_portals_model_floors(model_keys, min_price, max_price) is called;
\* ret.out holds `result` while the loop runs
CallFetchPortalsModelFloors ==
    /\ pc = "idle"
    /\ fn' = "fetch_portals_model_floors"
    /\ \E keys \in ModelKeyLists, band \in FloorSearchBands :
        /\ args' = [model_keys |-> keys, min_price |-> band[1], max_price |-> band[2]]
        /\ model_keys' = keys
        /\ pc' = IF keys = <<>> THEN "done" ELSE "floor_search"
    /\ key_idx' = 1
    /\ ret' = Returned(<<>>)
    /\ UNCHANGED <<page, max_pages, calls, auctions, portals_prices, tonnel_gifts,
                   min_price, max_price, min_profit_percent>>

\* one iteration of the loop of fetch_portals_model_floors
SearchFloor ==
    /\ pc = "floor_search"
    /\ key_idx <= Len(model_keys)
    /\ \E reply \in FloorSearchReplies :
        /\ calls' = Append(calls, SearchCall(key_idx, FloorsSearchLimit, reply))
        /\ ret' = PortalsModelFloorsStep(ret.out, model_keys[key_idx], reply,
                                         args.min_price, args.max_price)
        /\ IF ret'.err # "none"
           THEN /\ pc' = "raised"
                /\ UNCHANGED key_idx
           ELSE IF key_idx < Len(model_keys)
           THEN /\ key_idx' = key_idx + 1
                /\ UNCHANGED pc
           ELSE /\ pc' = "done"
                /\ UNCHANGED key_idx
    /\ UNCHANGED <<fn, args, page, max_pages, auctions, model_keys, portals_prices,
                   tonnel_gifts, min_price, max_price, min_profit_percent>>

\* one iteration of the loop of fetch_tonnel_gifts.  When the loop ends the
\* fetch returns `all_gifts`; within scan_and_find (step 5) the scan then
\* builds clean_status, scores, sorts and returns (step 6).
GetGifts ==
    /\ pc = "gifts"
    /\ page <= max_pages
    /\ \E reply \in PageReplies(GiftReplies) :
        /\ calls' = Append(calls, Call("getGifts", page, reply))
        /\ tonnel_gifts' = GiftsPageGot(tonnel_gifts, reply)
        /\ IF GiftsPageRaises(reply) # "none"
           THEN /\ ret' = Raised(GiftsPageRaises(reply))
                /\ pc' = "raised"
                /\ UNCHANGED page
           ELSE IF GiftsPageAgain(reply, page, max_pages)
           THEN /\ page' = NextPage(page)
                /\ UNCHANGED <<pc, ret>>
           ELSE /\ ret' = IF fn = "fetch_tonnel_gifts" THEN Returned(tonnel_gifts')
                          ELSE ScanScore(auctions, portals_prices, tonnel_gifts',
                                         min_profit_percent)
                /\ pc' = IF ret'.err = "none" THEN "done" ELSE "raised"
                /\ UNCHANGED page
    /\ UNCHANGED <<fn, args, max_pages, key_idx, auctions, model_keys, portals_prices,
                   min_price, max_price, min_profit_percent>>

\* a pure function is called with arguments `a`: it returns or raises at once
Finish(f, a, r) ==
    /\ fn' = f
    /\ args' = a
    /\ ret' = r
    /\ pc' = IF ret'.err = "none" THEN "done" ELSE "raised"
    /\ min_profit_percent' = a.min_profit_percent
    /\ UNCHANGED <<page, max_pages, key_idx, calls, auctions, model_keys,
                   portals_prices, tonnel_gifts, min_price, max_price>>

JoinedKeys(a, b) == DictKeys(a) \cap DictKeys(b)

\* a function called on its own with arguments `a`: it returns or raises at once
Direct(f, a, r) ==
    /\ fn' = f
    /\ args' = a
    /\ ret' = r
    /\ pc' = IF ret'.err = "none" THEN "done" ELSE "raised"
    /\ UNCHANGED <<page, max_pages, key_idx, calls, auctions, model_keys,
                   portals_prices, tonnel_gifts, min_price, max_price,
                   min_profit_percent>>

CallFetchPortalsFloors ==
    /\ pc = "idle"
    /\ \E floors \in PortalsFloorsReplies :
         Direct("fetch_portals_floors", [floors |-> floors], fetch_portals_floors(floors))

CallFetchTonnelFloors ==
    /\ pc = "idle"
    /\ \E stats \in StatsReplies :
         Direct("fetch_tonnel_floors", [stats |-> stats], fetch_tonnel_floors(stats))

CallFetchTonnelModelFloors ==
    /\ pc = "idle"
    /\ \E stats \in StatsReplies, band \in ModelFloorBands :
         Direct("fetch_tonnel_model_floors",
                [stats |-> stats, min_price |-> band[1], max_price |-> band[2]],
                fetch_tonnel_model_floors(stats, band[1], band[2]))

CallNormaliseName ==
    /\ pc = "idle"
    /\ \E name \in Names :
         /\ fn' = "normalise_name"
         /\ args' = [name |-> name]
         /\ ret' = Returned(normalise_name(name))
    /\ pc' = "done"
    /\ UNCHANGED <<page, max_pages, key_idx, calls, auctions, model_keys,
                   portals_prices, tonnel_gifts, min_price, max_price,
                   min_profit_percent>>

CallCalculateFlips ==
    /\ pc = "idle"
    /\ \E gifts \in Lists(FlipGiftPool), floors \in PortalFloorMaps, m \in CalcMinProfits :
         \E order \in Orders(JoinedKeys(FlipsTonnelFloors(gifts).out, floors)) :
            Finish("calculate_flips",
                   [tonnel_gifts |-> gifts, portal_floors |-> floors,
                    min_profit_percent |-> m],
                   calculate_flips(gifts, floors, m, order))

CallCalculateModelFlips ==
    /\ pc = "idle"
    /\ \E tmf \in TonnelModelFloorMaps, pmf \in PortalsModelFloorMaps,
          m \in CalcMinProfits, cs \in CleanStatusArgs :
         \E order \in Orders(JoinedKeys(tmf, pmf)) :
            Finish("calculate_model_flips",
                   [tonnel_model_floors |-> tmf, portals_model_floors |-> pmf,
                    min_profit_percent |-> m, clean_status |-> cs],
                   calculate_model_flips(tmf, pmf, m, cs, order))

CallCalculateAuctionFlips ==
    /\ pc = "idle"
    /\ \E aucs \in Lists(FlipAuctionPool), prices \in DepthMaps,
          m \in CalcMinProfits, cs \in CleanStatusArgs :
        /\ cs.given
        /\ Finish("calculate_auction_flips",
                  [auctions |-> aucs, portals_prices |-> prices,
                   min_profit_percent |-> m, clean_status |-> cs.d],
                  calculate_auction_flips(aucs, prices, m, cs.d))

CallCalculatePortalsInternalFlips ==
    /\ pc = "idle"
    /\ \E prices \in DepthMaps, m \in CalcMinProfits :
        Finish("calculate_portals_internal_flips",
               [portals_prices |-> prices, min_profit_percent |-> m],
               calculate_portals_internal_flips(prices, m))

Next ==
    \/ CallScan
    \/ CallFetchPortalsModelPrices
    \/ CallFetchPortalsModelFloors
    \/ SearchFloor
    \/ CallFetchAuctions
    \/ CallFetchGifts
    \/ UpdateAuthReturns
    \/ UpdateAuthRaises
    \/ GetAuctions
    \/ Search
    \/ GetGifts
    \/ CallCalculateFlips
    \/ CallCalculateModelFlips
    \/ CallCalculateAuctionFlips
    \/ CallCalculatePortalsInternalFlips
    \/ CallNormaliseName
    \/ CallFetchPortalsFloors
    \/ CallFetchTonnelFloors
    \/ CallFetchTonnelModelFloors

Spec == Init /\ [][Next]_vars

(***************************************************************************)
(* Properties.  `calls` holds the requests of the one call that a          *)
(* behaviour makes from "idle".                                            *)
(***************************************************************************)
\* the requests made to client function f, in the order issued
RequestsOf(f) == SelectSeq(calls, LAMBDA c : c.fn = f)

\* max_pages of the paginated fetch behind client function f
MaxPagesOf(f) ==
    IF fn # "scan_and_find" THEN max_pages
    ELSE IF f = "getAuctions" THEN AuctionMaxPages ELSE GiftMaxPages

\* the control point of the loop that calls client function f
LoopOf(f) == IF f = "getAuctions" THEN "auctions" ELSE "gifts"

\* the records of the replies rs[1..n], concatenated
RECURSIVE Records(_, _)
Records(rs, n) == IF n = 0 THEN <<>> ELSE Records(rs, n - 1) \o rs[n].items

LastOf(rs) == rs[Len(rs)]

PageClients == {"getAuctions", "getGifts"}
ScoringFunctions == {"calculate_flips", "calculate_model_flips",
                     "calculate_auction_flips", "calculate_portals_internal_flips"}

\* C1: a paginated fetch requests the pages 1, 2, ..., k in that order with
\* k <= max_pages: never more than max_pages requests, no page skipped, no
\* page requested twice.
C1_PagesInOrder ==
    \A f \in PageClients :
        /\ Len(RequestsOf(f)) <= MaxPagesOf(f)
        /\ \A i \in DOMAIN RequestsOf(f) : RequestsOf(f)[i].arg = i

\* C1 witness: a fetch that stopped at max_pages >= 2 although its last page was full
C1_Witness ==
    /\ fn = "fetch_tonnel_auctions" /\ pc = "done"
    /\ max_pages >= 2
    /\ Len(RequestsOf("getAuctions")) = max_pages
    /\ LastOf(calls).kind = "list" /\ Len(LastOf(calls).items) = PageLimit
    /\ LastOf(calls).arg = max_pages

\* C2: no page is requested after a page with fewer than PageLimit records,
\* and after a full page with page number < max_pages the fetch is about to
\* request the next page.
C2_ShortPageStops ==
    \A f \in PageClients :
        /\ \A i \in DOMAIN RequestsOf(f) :
              Len(RequestsOf(f)[i].items) < PageLimit => i = Len(RequestsOf(f))
        /\ ( /\ RequestsOf(f) # <<>>
             /\ LastOf(RequestsOf(f)).kind = "list"
             /\ Len(LastOf(RequestsOf(f)).items) = PageLimit
             /\ Len(RequestsOf(f)) < MaxPagesOf(f) )
           => (pc = LoopOf(f) /\ page = Len(RequestsOf(f)) + 1 /\ page <= max_pages)

\* C2 witness: a full first page was followed by a request for page 2, whose
\* short page ended the fetch before max_pages
C2_Witness ==
    /\ fn = "fetch_tonnel_gifts" /\ pc = "done"
    /\ max_pages >= 3
    /\ Len(calls) = 2
    /\ calls[1].kind = "list" /\ Len(calls[1].items) = PageLimit
    /\ calls[2].kind = "list" /\ calls[2].items # <<>> /\ Len(calls[2].items) < PageLimit
    /\ ret.out = calls[1].items \o calls[2].items

\* C3: when the request for page k raises, the fetch raises nothing and
\* returns the records of pages 1..k-1 in order; a scan goes on with them:
\* to step 3 and the Portals searches (or returns [] when there is no model
\* key) after the auctions, to the scoring after the plain listings.
C3_FailedPageKeepsEarlier ==
    /\ ( /\ fn \in {"fetch_tonnel_auctions", "fetch_tonnel_gifts"}
         /\ calls # <<>> /\ LastOf(calls).kind = "raise" )
       => (pc = "done" /\ ret = Returned(Records(calls, Len(calls) - 1)))
    /\ ( /\ fn = "scan_and_find"
         /\ RequestsOf("getAuctions") # <<>>
         /\ LastOf(RequestsOf("getAuctions")).kind = "raise" )
       => /\ auctions = Records(RequestsOf("getAuctions"),
                                Len(RequestsOf("getAuctions")) - 1)
          /\ IF CollectKeys(auctions).err # "none"
             THEN pc = "raised" /\ ret = Raised(CollectKeys(auctions).err)
             ELSE IF CollectKeys(auctions).out = <<>>
             THEN pc = "done" /\ ret = Returned(<<>>)
             ELSE /\ model_keys = CollectKeys(auctions).out
                  /\ pc \in {"search", "gifts", "done", "raised"}
    /\ ( /\ fn = "scan_and_find"
         /\ RequestsOf("getGifts") # <<>>
         /\ LastOf(RequestsOf("getGifts")).kind = "raise" )
       => /\ tonnel_gifts = Records(RequestsOf("getGifts"), Len(RequestsOf("getGifts")) - 1)
          /\ ret = ScanScore(auctions, portals_prices, tonnel_gifts, min_profit_percent)
          /\ pc = IF ret.err = "none" THEN "done" ELSE "raised"

\* C3 witness: page 2 raised after a full page 1, and the fetch returned page 1
C3_Witness ==
    /\ fn = "fetch_tonnel_auctions" /\ pc = "done"
    /\ Len(calls) = 2
    /\ calls[2].kind = "raise"
    /\ Len(calls[1].items) = PageLimit
    /\ ret = Returned(calls[1].items)

\* the ModelKey of an auction: (canonical item name, canonical variant name)
ModelKeyOf(auction) ==
    <<normalise_name(PyOr(auction.gift_name, auction.name).s),
      normalise_name(auction.model.s)>>

\* what the auction join owes an auction when its quotes are looked up by ModelKey
OwedByModelKey(auction) ==
    IF \/ ~auction.isdict
       \/ ~Truthy(PyOr(auction.gift_name, auction.name))
       \/ ~Truthy(auction.model)
       \/ ~AuctionBuyPrice(auction).some
    THEN Skip
    ELSE AuctionPriced(auction, PyOr(auction.gift_name, auction.name).s, auction.model.s,
             AuctionBuyPrice(auction).v,
             AuctionSellPrice(DictGet(portals_prices, ModelKeyOf(auction),
                                      [floor |-> Absent, second |-> Absent])),
             min_profit_percent, ScanCleanStatus(tonnel_gifts).out)

\* C4: in a scan that returned, every auction with an item name, a variant
\* name and a bid price whose ModelKey has a quote in the depth map, and
\* whose profit passes the filters, has its auction candidate in the result,
\* whatever the spelling of its display names.
C4_AuctionJoinByModelKey ==
    (fn = "scan_and_find" /\ pc = "done")
    => \A i \in DOMAIN auctions :
          OwedByModelKey(auctions[i]).kind = "emit"
          => \E j \in DOMAIN ret.out : ret.out[j] = OwedByModelKey(auctions[i]).cand

\* the commission rate of a market
CommissionOf(market) ==
    IF market = "Tonnel" THEN COMMISSION_RATE_TONNEL ELSE COMMISSION_RATE_PORTALS

\* price * (1 - commission of the sell market)
ProceedsOf(price_sell, market_sell) ==
    DMul(DInt(price_sell), DSub(DInt(1), CommissionOf(market_sell)))

\* C5: every cross-market candidate of calculate_flips has profit =
\* proceeds - cost - TRANSFER_FEE; so with buy price 10 on Tonnel and sell
\* price 12 on Portals the profit is 11.4 - 10.6 - 0.15 and the candidate is
\* dropped at min_profit_percent = 7.
C5_TransferFeeSubtracted ==
    (fn = "calculate_flips" /\ pc = "done")
    => /\ \A i \in DOMAIN ret.out :
             ret.out[i].market_buy # ret.out[i].market_sell
             => ret.out[i].profit_absolute =
                    DSub(DSub(ProceedsOf(ret.out[i].price_sell, ret.out[i].market_sell),
                              ret.out[i].price_buy),
                         TRANSFER_FEE)
       /\ ( /\ args.tonnel_gifts = <<Gift(PyStr(<<"a", "b">>), PyNone, PyNum(10))>>
            /\ args.portal_floors = <<Entry(<<"a", "b">>, 12)>>
            /\ args.min_profit_percent = 7 )
          => ret.out = <<>>

\* C6: no scoring strategy returns a candidate whose profit_absolute is <= 0,
\* whatever min_profit_percent is.
C6_NoNonPositiveProfit ==
    (fn \in ScoringFunctions /\ pc = "done")
    => \A i \in DOMAIN ret.out : DGreater(ret.out[i].profit_absolute, DZero)

\* C7: no scoring strategy fails with a division by zero, and none returns a
\* candidate whose fee-inclusive cost (price_buy) is <= 0.
C7_NoZeroCost ==
    (fn \in ScoringFunctions /\ pc \in {"done", "raised"})
    => /\ ret.err # "ZeroDivisionError"
       /\ \A i \in DOMAIN ret.out : DGreater(ret.out[i].price_buy, DZero)

\* profit_absolute is non-increasing along cands
SortedByProfit(cands) ==
    \A i \in 1..(Len(cands) - 1) :
        DLeq(cands[i + 1].profit_absolute, cands[i].profit_absolute)

\* C8: the list returned by scan_and_find, calculate_flips and
\* calculate_model_flips is sorted by profit_absolute in non-increasing
\* order and holds no candidate with profit_percent < min_profit_percent.
C8_SortedAndFiltered ==
    (fn \in {"scan_and_find", "calculate_flips", "calculate_model_flips"} /\ pc = "done")
    => /\ SortedByProfit(ret.out)
       /\ \A i \in DOMAIN ret.out :
             ~PercentBelow(ret.out[i].profit_percent, min_profit_percent)

\* C8 witness: calculate_flips returned two candidates of different profit
\* under a positive threshold, for a join iterated in the opposite order
C8_Witness ==
    /\ fn = "calculate_flips" /\ pc = "done"
    /\ min_profit_percent > 0
    /\ Len(ret.out) = 2
    /\ DGreater(ret.out[1].profit_absolute, ret.out[2].profit_absolute)
    /\ ret.out[1].name = <<"b">> /\ ret.out[2].name = <<"a", "b">>
    /\ args.portal_floors[1].k = <<"b">>
    /\ args.tonnel_gifts[1].name = PyStr(<<"a", "b">>)

\* an authentication failure: update_auth raised, or the first auctions
\* page request raised or returned an error mapping instead of a list
AuthFailure ==
    \/ \E i \in DOMAIN calls : calls[i].fn = "update_auth" /\ calls[i].kind = "raise"
    \/ /\ RequestsOf("getAuctions") # <<>>
       /\ RequestsOf("getAuctions")[1].kind \in {"raise", "dict"}

\* C9: after an authentication failure of either market the scan fails
\* towards its caller; it does not return a list.
C9_AuthFailureFailsScan ==
    (fn = "scan_and_find" /\ AuthFailure) => pc = "raised"

\* a Tonnel record whose price float() accepts, or that the floor pass skips
\* before it reads the price
PriceParses(gift) ==
    \/ ~gift.isdict \/ ~Truthy(gift.name) \/ gift.price.t = "none"
    \/ Float(gift.price).err = "none"

\* a Tonnel record whose name normalise_name accepts, or that the loops skip
\* before they read the name
NameIsStr(gift) == ~gift.isdict \/ ~Truthy(gift.name) \/ gift.name.t = "str"

\* C10: the Tonnel floor pass of calculate_flips discards a record with an
\* unparsable price alone: over records with well-formed names it raises
\* nothing and yields the floors of the other records.
C10_BadPriceDroppedAlone ==
    ( /\ fn = "calculate_flips" /\ pc \in {"done", "raised"}
      /\ \A i \in DOMAIN args.tonnel_gifts : NameIsStr(args.tonnel_gifts[i]) )
    => /\ ret.err = "none"
       /\ FlipsTonnelFloors(args.tonnel_gifts)
              = FlipsTonnelFloors(SelectSeq(args.tonnel_gifts, PriceParses))

\* C11: empty input gives empty output without an exception: a scan whose
\* auction fetch returned no records, or whose auctions yield no ModelKey,
\* returns []; a scoring function called with empty listings or an empty
\* price map returns [].
C11_EmptyInEmptyOut ==
    /\ ( /\ fn = "scan_and_find"
         /\ RequestsOf("getAuctions") # <<>>
         /\ pc # "auctions"
         /\ (auctions = <<>> \/ CollectKeys(auctions) = Returned(<<>>)) )
       => (pc = "done" /\ ret = Returned(<<>>))
    /\ ( /\ fn = "calculate_flips"
         /\ (args.tonnel_gifts = <<>> \/ args.portal_floors = <<>>) )
       => (pc = "done" /\ ret = Returned(<<>>))
    /\ ( /\ fn = "calculate_model_flips"
         /\ (args.tonnel_model_floors = <<>> \/ args.portals_model_floors = <<>>) )
       => (pc = "done" /\ ret = Returned(<<>>))
    /\ ( /\ fn = "calculate_auction_flips"
         /\ (args.auctions = <<>> \/ args.portals_prices = <<>>) )
       => (pc = "done" /\ ret = Returned(<<>>))
    /\ ( /\ fn = "calculate_portals_internal_flips"
         /\ args.portals_prices = <<>> )
       => (pc = "done" /\ ret = Returned(<<>>))

\* the Tonnel floor map that calculate_flips joined, and the floor of a key in it
JoinedTonnelFloor(key) == DictGet(FlipsTonnelFloors(args.tonnel_gifts).out, key, 0)
JoinedPortalFloor(key) == DictGet(args.portal_floors, key, 0)

\* C12: calculate_flips emits candidates only for keys present in both floor
\* maps; the buy market is the one with the strictly lower floor and the sell
\* market the other one, so a key whose floors are equal yields no candidate.
C12_ItemJoinDirection ==
    (fn = "calculate_flips" /\ pc = "done")
    => \A i \in DOMAIN ret.out :
          /\ DictHas(FlipsTonnelFloors(args.tonnel_gifts).out, ret.out[i].name)
          /\ DictHas(args.portal_floors, ret.out[i].name)
          /\ \/ /\ ret.out[i].market_buy = "Tonnel" /\ ret.out[i].market_sell = "Portals"
                /\ JoinedTonnelFloor(ret.out[i].name) < JoinedPortalFloor(ret.out[i].name)
                /\ ret.out[i].price_sell = JoinedPortalFloor(ret.out[i].name)
             \/ /\ ret.out[i].market_buy = "Portals" /\ ret.out[i].market_sell = "Tonnel"
                /\ JoinedPortalFloor(ret.out[i].name) < JoinedTonnelFloor(ret.out[i].name)
                /\ ret.out[i].price_sell = JoinedTonnelFloor(ret.out[i].name)

\* C12 witness: one call returned a Tonnel -> Portals candidate for the joined key
\* and none for a Tonnel key that the Portals map does not hold
C12_Witness ==
    /\ fn = "calculate_flips" /\ pc = "done"
    /\ Len(ret.out) = 1
    /\ ret.out[1].market_buy = "Tonnel"
    /\ Len(FlipsTonnelFloors(args.tonnel_gifts).out) = 2
    /\ Len(args.portal_floors) = 1
    /\ args.min_profit_percent = -100

\* the ModelKey of a candidate of the model-level join
CandidateKey(c) == <<c.name, c.model>>

\* C13: every candidate of calculate_model_flips buys on Tonnel and sells on
\* Portals, for a ModelKey of both maps whose Tonnel floor is strictly lower
\* than its Portals floor; a key whose Portals floor is lower than or equal
\* to its Tonnel floor has no candidate.
C13_ModelJoinOneDirection ==
    (fn = "calculate_model_flips" /\ pc = "done")
    => /\ \A i \in DOMAIN ret.out :
             /\ ret.out[i].market_buy = "Tonnel"
             /\ ret.out[i].market_sell = "Portals"
             /\ DictHas(args.tonnel_model_floors, CandidateKey(ret.out[i]))
             /\ DictHas(args.portals_model_floors, CandidateKey(ret.out[i]))
             /\ DictGet(args.tonnel_model_floors, CandidateKey(ret.out[i]), 0)
                    < DictGet(args.portals_model_floors, CandidateKey(ret.out[i]), 0)
       /\ \A j \in DOMAIN args.portals_model_floors :
             ( /\ DictHas(args.tonnel_model_floors, args.portals_model_floors[j].k)
               /\ args.portals_model_floors[j].v
                      <= DictGet(args.tonnel_model_floors, args.portals_model_floors[j].k, 0) )
             => \A i \in DOMAIN ret.out :
                   CandidateKey(ret.out[i]) # args.portals_model_floors[j].k

\* C13 witness: of two joined keys the one with the lower Tonnel floor gave a
\* candidate and the one with the lower Portals floor gave none
C13_Witness ==
    /\ fn = "calculate_model_flips" /\ pc = "done"
    /\ Len(ret.out) = 1
    /\ CandidateKey(ret.out[1]) = KeyBM
    /\ DictGet(args.tonnel_model_floors, KeyAbM, 0) = 14
    /\ DictGet(args.portals_model_floors, KeyAbM, 0) = 10


\* C14: normalise_name is idempotent: normalising the key that
\* normalise_name returned gives that key again.
C14_NormaliseIdempotent ==
    (fn = "normalise_name" /\ pc = "done")
    => normalise_name(ret.out) = ret.out

\* C14 witness: a name with an upper-case letter and two removed characters
\* was normalised to a shorter, non-empty key
C14_Witness ==
    /\ fn = "normalise_name" /\ pc = "done"
    /\ args.name = <<"A", "-", " ">>
    /\ ret.out = <<"a">>


\* the characters the canonical key ignores, and the upper-case letters
Blanks == {" ", "\t"}
Hyphens == {"-"}
Apostrophes == {"'", "rsquo"}
IgnoredChars == Blanks \cup Hyphens \cup Apostrophes
UpperCaseLetters == {"A", "B", "M", "Sigma", "DoubleC"}
SameLetter(a, b) ==
    a = b \/ {a, b} \in {{"A", "a"}, {"B", "b"}, {"M", "m"}, {"Sigma", "sigma"}}
LettersOf(name) == SelectSeq(name, LAMBDA c : c \notin IgnoredChars)
\* two names differ only in letter case and in occurrences of ignored characters
DifferOnlyInCaseAndIgnored(x, y) ==
    /\ Len(LettersOf(x)) = Len(LettersOf(y))
    /\ \A i \in DOMAIN LettersOf(x) : SameLetter(LettersOf(x)[i], LettersOf(y)[i])
\* a name written with ASCII letters and the characters the key ignores
IsPlainName(name) == \A i \in DOMAIN name : name[i] \in NameChars
\* the names a normalised name is compared with: the plain ones, and all
ComparedNames == {<<>>} \cup {<<a>> : a \in NameChars} \cup {<<a, b>> : a, b \in NameChars}
ComparedWideNames == {<<>>} \cup {<<a>> : a \in WideChars} \cup {<<a, b>> : a, b \in WideChars}

\* C15 (as amended): no canonical key contains whitespace, a hyphen-minus, an
\* apostrophe or a typographic apostrophe; and for a name written with ASCII
\* letters and those characters, every such name that differs from it only in
\* letter case and in occurrences of those characters has the same canonical
\* key, and the key contains no upper-case letter.
C15_SameKeyNoIgnoredNoUpper ==
    (fn = "normalise_name" /\ pc = "done")
    => /\ \A i \in DOMAIN ret.out : ret.out[i] \notin IgnoredChars
       /\ IsPlainName(args.name)
             => /\ \A y \in ComparedNames :
                      DifferOnlyInCaseAndIgnored(args.name, y) => normalise_name(y) = ret.out
                /\ \A i \in DOMAIN ret.out : ret.out[i] \notin UpperCaseLetters

\* C15 as stated, for any two display names: a name that differs from the
\* normalised name only in letter case and in occurrences of whitespace,
\* hyphens, apostrophes and typographic apostrophes has the same canonical
\* key, and the canonical key contains none of these characters and no
\* upper-case letter.
C15_AnyNamesSameKeyNoUpper ==
    (fn = "normalise_name" /\ pc = "done")
    => /\ \A y \in ComparedWideNames :
             DifferOnlyInCaseAndIgnored(args.name, y) => normalise_name(y) = ret.out
       /\ \A i \in DOMAIN ret.out : ret.out[i] \notin IgnoredChars \cup UpperCaseLetters

\* C15 witness: "A-b" was normalised to "ab", the key of "Ab" and of "a b"
C15_Witness ==
    /\ fn = "normalise_name" /\ pc = "done"
    /\ args.name = <<"A", "-", "b">>
    /\ ret.out = <<"a", "b">>
    /\ DifferOnlyInCaseAndIgnored(args.name, <<"A", "b">>)
    /\ normalise_name(<<"A", "b">>) = <<"a", "b">>


\* the commission rate of the market a candidate was bought on
BuyCommissionOf(c) ==
    IF c.market_buy \in {"Tonnel", "Tonnel (auction)"}
    THEN COMMISSION_RATE_TONNEL ELSE COMMISSION_RATE_PORTALS

\* the quote of candidate c's ModelKey in the depth map of the call
QuoteOf(c) == DictGet(args.portals_prices, CandidateKey(c), Depth(Absent, Absent))

\* the buy prices (whole TON, before commission) that the arguments of the
\* call hold for candidate c
RawBuyPrices(c) ==
    CASE fn = "calculate_flips" ->
           IF c.market_buy = "Tonnel" THEN {JoinedTonnelFloor(c.name)}
           ELSE {JoinedPortalFloor(c.name)}
      [] fn = "calculate_model_flips" ->
           {DictGet(args.tonnel_model_floors, CandidateKey(c), 0)}
      [] fn = "calculate_auction_flips" ->
           {AuctionBuyPrice(args.auctions[i]).v : i \in
               {j \in DOMAIN args.auctions :
                   /\ args.auctions[j].isdict
                   /\ PyOr(args.auctions[j].gift_name, args.auctions[j].name) = PyStr(c.name)
                   /\ args.auctions[j].model = PyStr(c.model)
                   /\ AuctionBuyPrice(args.auctions[j]).some}}
      [] OTHER -> IF QuoteOf(c).floor.some THEN {QuoteOf(c).floor.v} ELSE {}

\* the sell prices (whole TON, before commission) that the arguments hold for c
RawSellPrices(c) ==
    CASE fn = "calculate_flips" ->
           IF c.market_sell = "Tonnel" THEN {JoinedTonnelFloor(c.name)}
           ELSE {JoinedPortalFloor(c.name)}
      [] fn = "calculate_model_flips" ->
           {DictGet(args.portals_model_floors, CandidateKey(c), 0)}
      [] fn = "calculate_auction_flips" ->
           IF AuctionSellPrice(QuoteOf(c)).some THEN {AuctionSellPrice(QuoteOf(c)).v} ELSE {}
      [] OTHER -> IF QuoteOf(c).second.some THEN {QuoteOf(c).second.v} ELSE {}

\* 100 * profit / cost as the program's floats give it: the quotient times
\* 100.0
HundredTimesQuotient(profit, cost) == DMul(DDiv(profit, cost), DInt(100))

\* the (profit, cost) amounts of the price pairs met most often, and their
\* quotients, computed once
TabledAmounts ==
    {a \in {<<t.profit, t.cost>> :
               t \in {AuctionTable[p] : p \in AuctionPairs}
                      \cup {InternalTable[p] : p \in InternalPairs}
                      \cup {ModelTable[p] : p \in ModelPairs}
                      \cup {ItemTable[d] : d \in ItemDeals}} : ~IsZero(a[2])}
TabledQuotients == [a \in TabledAmounts |-> HundredTimesQuotient(a[1], a[2])] @@ <<>>
PercentOf(profit, cost) ==
    IF <<profit, cost>> \in TabledAmounts THEN TabledQuotients[<<profit, cost>>]
    ELSE HundredTimesQuotient(profit, cost)

\* C16: every candidate of the four strategies has price_buy = the buy price
\* raised by the buy market's commission, price_sell = the sell price before
\* commission, and profit_percent = 100 * profit_absolute / price_buy (in the
\* program's floats: the quotient profit_absolute / price_buy times 100.0).
C16_PercentAndPriceFields ==
    (fn \in ScoringFunctions /\ pc = "done")
    => \A i \in DOMAIN ret.out :
          /\ \E b \in RawBuyPrices(ret.out[i]) :
                ret.out[i].price_buy
                    = DMul(DInt(b), DAdd(DInt(1), BuyCommissionOf(ret.out[i])))
          /\ \E s \in RawSellPrices(ret.out[i]) : ret.out[i].price_sell = s
          /\ ~IsZero(ret.out[i].price_buy)
          /\ ret.out[i].profit_percent
                 = PercentOf(ret.out[i].profit_absolute, ret.out[i].price_buy)

\* C16 witness: an auction with bid 10 was scored against the second price 14:
\* price_buy 10 * 1.06, price_sell 14
C16_Witness ==
    /\ fn = "calculate_auction_flips" /\ pc = "done"
    /\ Len(ret.out) = 1
    /\ ret.out[1].price_buy = DMul(DInt(10), DAdd(DInt(1), COMMISSION_RATE_TONNEL))
    /\ ret.out[1].price_sell = 14


\* the names under which the auction join looks an auction up, when it has them
HasNames(auction) ==
    /\ auction.isdict
    /\ Truthy(PyOr(auction.gift_name, auction.name))
    /\ Truthy(auction.model)
LookupKeyOf(auction) == <<PyOr(auction.gift_name, auction.name).s, auction.model.s>>

\* C17: every auction candidate has a depth-map entry and its sell price is
\* the entry's second-lowest quote when present, otherwise its floor quote;
\* an auction with no entry, or with an entry whose two quotes are both
\* absent, has no candidate.
C17_AuctionSellPriceChoice ==
    (fn = "calculate_auction_flips" /\ pc = "done")
    => /\ \A i \in DOMAIN ret.out :
             /\ DictHas(args.portals_prices, CandidateKey(ret.out[i]))
             /\ IF QuoteOf(ret.out[i]).second.some
                THEN ret.out[i].price_sell = QuoteOf(ret.out[i]).second.v
                ELSE /\ QuoteOf(ret.out[i]).floor.some
                     /\ ret.out[i].price_sell = QuoteOf(ret.out[i]).floor.v
       /\ \A j \in DOMAIN args.auctions :
             ( /\ HasNames(args.auctions[j])
               /\ LET q == DictGet(args.portals_prices, LookupKeyOf(args.auctions[j]),
                                   Depth(Absent, Absent))
                  IN  ~q.second.some /\ ~q.floor.some )
             => \A i \in DOMAIN ret.out :
                   CandidateKey(ret.out[i]) # LookupKeyOf(args.auctions[j])

\* C17 witness: an entry with a floor quote only gave a candidate sold at the
\* floor, next to an auction without an entry
C17_Witness ==
    /\ fn = "calculate_auction_flips" /\ pc = "done"
    /\ args.portals_prices = <<Entry(KeyAbM, Depth(Some(12), Absent))>>
    /\ Len(args.auctions) = 2
    /\ LookupKeyOf(args.auctions[2]) = KeyBM
    /\ Len(ret.out) = 1
    /\ ret.out[1].price_sell = 12


\* proceeds - cost of buy price b and sell price s:
\* s * (1 - commission[sell]) - b * (1 + commission[buy])
MarginOf(c, b, s) ==
    DSub(ProceedsOf(s, c.market_sell), DMul(DInt(b), DAdd(DInt(1), BuyCommissionOf(c))))

\* C18: every candidate of the model-flip, auction-flip and internal-flip
\* strategies has profit_absolute = sell_price * (1 - commission[sell])
\* - buy_price * (1 + commission[buy]) - TRANSFER_FEE when its buy and sell
\* markets differ, and without the TRANSFER_FEE term when they are the same.
C18_TransferFeeOnceAcrossMarkets ==
    ( /\ fn \in {"calculate_model_flips", "calculate_auction_flips",
                 "calculate_portals_internal_flips"}
      /\ pc = "done" )
    => \A i \in DOMAIN ret.out :
          \E b \in RawBuyPrices(ret.out[i]), s \in RawSellPrices(ret.out[i]) :
             ret.out[i].profit_absolute =
                 IF ret.out[i].market_buy # ret.out[i].market_sell
                 THEN DSub(MarginOf(ret.out[i], b, s), TRANSFER_FEE)
                 ELSE MarginOf(ret.out[i], b, s)

\* C18 witness: a Portals-internal candidate bought at 10 and sold at 20 has
\* profit 20 * 0.95 - 10 * 1.05, no fee taken off
C18_Witness ==
    /\ fn = "calculate_portals_internal_flips" /\ pc = "done"
    /\ \E i \in DOMAIN ret.out :
          /\ ret.out[i].market_buy = ret.out[i].market_sell
          /\ ret.out[i].price_sell = 20
          /\ ret.out[i].profit_absolute
                 = DSub(DMul(DInt(20), DSub(DInt(1), COMMISSION_RATE_PORTALS)),
                        DMul(DInt(10), DAdd(DInt(1), COMMISSION_RATE_PORTALS)))


\* the replies that are not a collection of records
MalformedKinds == {"str", "num", "dict"}

\* C19: when a page reply is a string, a number or a mapping, the paginated
\* fetch stops and returns exactly the records of the earlier pages, in
\* fetch_tonnel_gifts as in fetch_tonnel_auctions (called directly or by a
\* scan): nothing of the malformed reply is added.
C19_MalformedReplyStops ==
    /\ ( /\ fn \in {"fetch_tonnel_auctions", "fetch_tonnel_gifts"}
         /\ calls # <<>> /\ LastOf(calls).kind \in MalformedKinds )
       => (pc = "done" /\ ret = Returned(Records(calls, Len(calls) - 1)))
    /\ ( /\ fn = "scan_and_find"
         /\ RequestsOf("getAuctions") # <<>>
         /\ LastOf(RequestsOf("getAuctions")).kind \in MalformedKinds )
       => /\ pc # "auctions"
          /\ auctions = Records(RequestsOf("getAuctions"),
                                Len(RequestsOf("getAuctions")) - 1)
    /\ ( /\ fn = "scan_and_find"
         /\ RequestsOf("getGifts") # <<>>
         /\ LastOf(RequestsOf("getGifts")).kind \in MalformedKinds )
       => /\ pc # "gifts"
          /\ tonnel_gifts = Records(RequestsOf("getGifts"),
                                    Len(RequestsOf("getGifts")) - 1)


\* a record's price, when it has one that parses
Parses(price) == price.t # "none" /\ Float(price).err = "none"

\* the (key, price) quotes of the records a floor map is built from
ListQuotes(items) ==
    { <<normalise_name(items[i].name.s), Float(items[i].price).v>> : i \in
        {j \in DOMAIN items :
            items[j].isdict /\ Truthy(items[j].name) /\ Parses(items[j].price)} }
DictQuotes(entries) ==
    { <<normalise_name(entries[i].k), Float(entries[i].v).v>> : i \in
        {j \in DOMAIN entries : Parses(entries[j].v)} }
GiftFloorQuotes(data) ==
    { <<normalise_name(data[i].k), Float(data[i].v.info.floorPrice).v>> : i \in
        {j \in DOMAIN data :
            /\ data[j].v.isdict /\ data[j].v.info.kind = "dict"
            /\ Parses(data[j].v.info.floorPrice)} }
ModelFloorQuotes(data, low, high) ==
    UNION { { <<<<normalise_name(data[i].k), normalise_name(data[i].v.models[m].k)>>,
               Float(data[i].v.models[m].v.floorPrice).v>> : m \in
                {n \in DOMAIN data[i].v.models :
                    /\ data[i].v.models[n].v.isdict
                    /\ Parses(data[i].v.models[n].v.floorPrice)
                    /\ ~OutOfBand(Float(data[i].v.models[n].v.floorPrice).v,
                                  low, high)} }
            : i \in {j \in DOMAIN data : data[j].v.isdict} }

\* every value of the map is the least price quoted for its key
HoldsMinimum(floors, quotes) ==
    \A i \in DOMAIN floors :
        /\ <<floors[i].k, floors[i].v>> \in quotes
        /\ \A q \in quotes : q[1] = floors[i].k => floors[i].v <= q[2]

\* C20: in every floor map built from a market's records (fetch_portals_floors,
\* fetch_tonnel_floors, fetch_tonnel_model_floors, the Tonnel floor pass of
\* calculate_flips) the value stored for a key is the minimum price among
\* all records whose names canonicalize to that key, whatever their order.
C20_FloorMapsHoldMinimum ==
    /\ (fn = "fetch_portals_floors" /\ pc = "done")
       => HoldsMinimum(ret.out, IF args.floors.kind = "dict"
                                THEN DictQuotes(args.floors.items)
                                ELSE ListQuotes(args.floors.items))
    /\ (fn = "fetch_tonnel_floors" /\ pc = "done")
       => HoldsMinimum(ret.out, GiftFloorQuotes(args.stats.items))
    /\ (fn = "fetch_tonnel_model_floors" /\ pc = "done")
       => HoldsMinimum(ret.out, ModelFloorQuotes(args.stats.items, args.min_price,
                                                 args.max_price))
    /\ (fn = "calculate_flips" /\ FlipsTonnelFloors(args.tonnel_gifts).err = "none")
       => HoldsMinimum(FlipsTonnelFloors(args.tonnel_gifts).out,
                       ListQuotes(args.tonnel_gifts))


\* the ModelKeys of the auctions that carry an item name and a variant name
KeysOfAuctions ==
    {ModelKeyOf(auctions[i]) : i \in {j \in DOMAIN auctions : HasNames(auctions[j])}}

\* C21: once a scan has fetched its auctions and its key loop has ended
\* without an exception (a name that is no text makes normalise_name raise
\* and the scan ends raised with no key), model_keys holds each (canonical
\* item, canonical variant) pair at most once and exactly the pairs of the
\* auctions that carry both names; the depth query issues its lookups for the
\* keys 1, 2, ... of model_keys, one each, so that it ends with exactly one
\* lookup per distinct key.
C21_KeysOnceLookupsOnce ==
    ( /\ fn = "scan_and_find" /\ RequestsOf("getAuctions") # <<>> /\ pc # "auctions"
      /\ ~(pc = "raised" /\ model_keys = <<>>) )
    => /\ \A i, j \in DOMAIN model_keys : model_keys[i] = model_keys[j] => i = j
       /\ {model_keys[i] : i \in DOMAIN model_keys} = KeysOfAuctions
       /\ \A i \in DOMAIN RequestsOf("search") : RequestsOf("search")[i].arg = i
       /\ Len(RequestsOf("search")) <= Cardinality(KeysOfAuctions)
       /\ pc # "search" => Len(RequestsOf("search")) = Cardinality(KeysOfAuctions)

\* C21 witness: three auctions, two of which share a ModelKey under
\* differently written names, gave two keys and the finished scan made two
\* lookups
C21_Witness ==
    /\ fn = "scan_and_find" /\ pc = "done"
    /\ auctions = AuctionTwoKeysPage
    /\ model_keys = <<KeyAbM, KeyBM>>
    /\ Len(RequestsOf("search")) = 2


\* the cleanliness map a call works with: the one it builds from the plain
\* Tonnel listings (calculate_flips, a scan) or the one it is given
RecordedClean ==
    CASE fn = "calculate_flips" -> FlipsCleanStatus(args.tonnel_gifts).out
      [] fn = "calculate_auction_flips" -> args.clean_status
      [] fn = "calculate_model_flips" ->
           IF args.clean_status.given THEN args.clean_status.d ELSE <<>>
      [] fn = "scan_and_find" -> ScanCleanStatus(tonnel_gifts).out
      [] OTHER -> <<>>

\* C22: a candidate bought on Portals is flagged clean; a candidate bought on
\* Tonnel (listing or auction) has the flag recorded for the CanonicalKey of
\* its item, and is flagged clean when no flag is recorded for that key.
C22_CleanFromBuySide ==
    (fn \in ScoringFunctions \cup {"scan_and_find"} /\ pc = "done")
    => \A recorded \in {RecordedClean} :
          \A i \in DOMAIN ret.out :
             ret.out[i].clean =
                 IF ret.out[i].market_buy = "Portals" THEN TRUE
                 ELSE DictGet(recorded, normalise_name(ret.out[i].name), TRUE)

\* C22 witness: a scan whose sampled listings hold a signed listing of the
\* auctioned item returned a dirty auction candidate and a clean internal one
C22_Witness ==
    /\ fn = "scan_and_find" /\ pc = "done"
    /\ \E i \in DOMAIN ret.out :
          ret.out[i].market_buy = "Tonnel (auction)" /\ ~ret.out[i].clean
    /\ \E i \in DOMAIN ret.out :
          ret.out[i].market_buy = "Portals" /\ ret.out[i].clean


\* the candidates of a scan in the order the strategies emitted them:
\* the auction flips, then the internal Portals flips
ScanEmitted ==
    calculate_auction_flips(auctions, portals_prices, min_profit_percent,
                            ScanCleanStatus(tonnel_gifts).out).out
        \o calculate_portals_internal_flips(portals_prices, min_profit_percent).out

\* `ranked` holds the candidates of `emitted`, each once, and those of equal
\* profit_absolute in the order they have in `emitted`
KeepsEmissionOrder(ranked, emitted) ==
    /\ Len(ranked) = Len(emitted)
    /\ \E p \in [DOMAIN ranked -> DOMAIN emitted] :
          /\ \A i, j \in DOMAIN ranked : p[i] = p[j] => i = j
          /\ \A i \in DOMAIN ranked : ranked[i] = emitted[p[i]]
          /\ \A i, j \in DOMAIN ranked :
                (i < j /\ ranked[i].profit_absolute = ranked[j].profit_absolute)
                => p[i] < p[j]

\* C23: the result of a scan holds the emitted candidates with those of equal
\* profit_absolute in emission order: an auction flip ahead of an internal
\* Portals flip of equal profit, candidates of one strategy in the order
\* they were emitted.
C23_StableRanking ==
    (fn = "scan_and_find" /\ pc = "done" /\ RequestsOf("getGifts") # <<>>)
    => /\ \A emitted \in {ScanEmitted} : KeepsEmissionOrder(ret.out, emitted)
       /\ \A i, j \in DOMAIN ret.out :
             ( /\ ret.out[i].profit_absolute = ret.out[j].profit_absolute
               /\ ret.out[i].market_buy = "Tonnel (auction)"
               /\ ret.out[j].market_buy = "Portals" )
             => i < j

\* C23 witness: an auction flip (bid 10, sold at 19) and an internal flip of
\* another key (3 -> 11), both with the profit 7.299999999999999, and an
\* auction flip of less profit emitted between them: the internal flip is
\* ranked ahead of the latter and behind the former
C23_Witness ==
    /\ fn = "scan_and_find" /\ pc = "done"
    /\ Len(ret.out) = 3
    /\ ret.out[1].market_buy = "Tonnel (auction)" /\ ret.out[1].price_sell = 19
    /\ ret.out[2].market_buy = "Portals" /\ ret.out[2].price_sell = 11
    /\ ret.out[1].profit_absolute = ret.out[2].profit_absolute
    /\ ret.out[3].market_buy = "Tonnel (auction)"
    /\ DLess(ret.out[3].profit_absolute, ret.out[2].profit_absolute)
    /\ ScanEmitted = <<ret.out[1], ret.out[3], ret.out[2]>>


\* the stage of a scan that issues a request to f
StageOf(f) ==
    CASE f = "update_auth" -> 1
      [] f = "getAuctions" -> 2
      [] f = "search" -> 3
      [] f = "getGifts" -> 4

\* the stage of the latest request (0 before the first)
LastStage == IF calls = <<>> THEN 0 ELSE StageOf(LastOf(calls).fn)

\* C24: the requests of a scan come stage by stage in the fixed order session
\* refresh, Tonnel auction pages, Portals depth lookups, Tonnel plain-listing
\* pages, and the scoring comes last; the session refresh is requested once
\* and first, nothing is requested after it raised, the plain-listing pages
\* are requested only when every depth lookup has been made, and a stage
\* starts only when the one before has issued its requests.
C24_StagesInOrder ==
    fn = "scan_and_find"
    => /\ \A i, j \in DOMAIN calls : i < j => StageOf(calls[i].fn) <= StageOf(calls[j].fn)
       /\ \A i \in DOMAIN calls : (calls[i].fn = "update_auth") = (i = 1)
       /\ (calls # <<>> /\ calls[1].kind = "raise") => (Len(calls) = 1 /\ pc = "raised")
       /\ RequestsOf("search") # <<>> => RequestsOf("getAuctions") # <<>>
       /\ RequestsOf("getGifts") # <<>>
             => (model_keys # <<>> /\ Len(RequestsOf("search")) = Len(model_keys))
       /\ pc = "update_auth" => LastStage = 0
       /\ pc = "auctions" => LastStage \in {1, 2}
       /\ pc = "search" => LastStage \in {2, 3}
       /\ pc = "gifts" => LastStage \in {3, 4}
       /\ (pc = "done" /\ ret.out # <<>>) => LastStage = 4

\* C24 witness: a finished scan that went through every stage and returned
\* candidates: one refresh, one auction page, two lookups, one listing page
C24_Witness ==
    /\ fn = "scan_and_find" /\ pc = "done" /\ ret.out # <<>>
    /\ Len(calls) = 5
    /\ calls[1].fn = "update_auth" /\ calls[2].fn = "getAuctions"
    /\ calls[3].fn = "search" /\ calls[4].fn = "search"
    /\ calls[5].fn = "getGifts"


\* an auction record that carries both an item name and a variant name
CarriesBothNames(a) ==
    a.isdict /\ (Truthy(a.gift_name) \/ Truthy(a.name)) /\ Truthy(a.model)

\* the candidates of a finished scan that buy and sell on Portals
InternalCandidates == SelectSeq(ret.out, LAMBDA c : c.market_buy = "Portals")

\* C25: when the auction fetch of a scan has ended with no records, or with
\* no auction that carries both an item name and a variant name, the scan has
\* returned the empty list and the auction pages are all it requested after
\* the session refresh: no Portals depth lookup, no Tonnel plain-listing
\* page, an empty depth map, and no internal Portals candidate.
C25_NoKeysNoFurtherFetch ==
    ( /\ fn = "scan_and_find"
      /\ RequestsOf("getAuctions") # <<>>
      /\ pc # "auctions"
      /\ \A i \in DOMAIN auctions : ~CarriesBothNames(auctions[i]) )
    => /\ pc = "done"
       /\ ret = Returned(<<>>)
       /\ RequestsOf("search") = <<>>
       /\ RequestsOf("getGifts") = <<>>
       /\ LastOf(calls).fn = "getAuctions"
       /\ portals_prices = <<>>
       /\ tonnel_gifts = <<>>
       /\ InternalCandidates = <<>>

\* C25 witness: a scan that fetched an auction without a variant name and
\* returned after the refresh and one auction page
C25_Witness ==
    /\ fn = "scan_and_find" /\ pc = "done"
    /\ auctions = <<AuctionNoModel>>
    /\ Len(calls) = 2
    /\ calls[2].fn = "getAuctions"
    /\ ret = Returned(<<>>)


\* the listings of `gifts` that carry the CanonicalKey `key`
ListingsOfKey(gifts, key) ==
    {i \in DOMAIN gifts : /\ gifts[i].isdict
                          /\ Truthy(gifts[i].name)
                          /\ normalise_name(gifts[i].name.s) = key}

\* the CanonicalKeys of the listings of `gifts`
SampledKeys(gifts) ==
    {normalise_name(gifts[i].name.s) :
        i \in {j \in DOMAIN gifts : gifts[j].isdict /\ Truthy(gifts[j].name)}}

\* the flag table stated listing by listing: one entry per key, in the order
\* of first appearance, clean when no listing of the key is signed
CleanStatusOf(gifts, short_names, names) ==
    [n \in DOMAIN names |->
        [k |-> names[n],
         v |-> \A i \in DOMAIN gifts :
                  (short_names[i].some /\ short_names[i].v = names[n])
                      => ~Truthy(gifts[i].signature)]]

CleanStatusFor(gifts, short_names) ==
    CleanStatusOf(gifts, short_names, DistinctKeys(FirstSeen(short_names)))

\* two flag tables that record the same flag for the same keys
SameFlags(a, b) ==
    /\ DictKeys(a) = DictKeys(b)
    /\ \A k \in DictKeys(a) : DictGet(a, k, TRUE) = DictGet(b, k, TRUE)

\* `gifts` from the last listing to the first
ReverseOrder(gifts) == [i \in DOMAIN gifts |-> gifts[Len(gifts) + 1 - i]]

\* `gifts` with listings n and n + 1 exchanged
SwapAt(gifts, n) ==
    [i \in DOMAIN gifts |-> IF i = n THEN gifts[n + 1]
                            ELSE IF i = n + 1 THEN gifts[n]
                            ELSE gifts[i]]

\* the flags recorded when the pass has seen the first n listings
FlagsAfter(n) == ScanCleanStatus(SubSeq(tonnel_gifts, 1, n)).out

\* the pass listing by listing: trace[n] holds the flags after listing n
RECURSIVE FlagsTrace(_, _, _)
FlagsTrace(gifts, i, trace) ==
    IF i > Len(gifts) THEN trace
    ELSE CHOOSE whole \in
            {FlagsTrace(gifts, i + 1, longer) :
                longer \in {Append(trace,
                                   ScanCleanStep(IF trace = <<>> THEN <<>> ELSE trace[Len(trace)],
                                                 gifts[i], GiftShortName(gifts[i])).out)}} : TRUE

\* C26: in a scan the flag recorded for a CanonicalKey is clean if and only
\* if every sampled plain listing with that key has an absent or empty
\* signature, and exactly the sampled keys have a flag; a key that is dirty
\* after some listing of the pass is dirty after the next one; and the flags
\* are the same when the listings come in reverse order or with two
\* different neighbours exchanged.  The pass reads the listings alone, so
\* the scans that fetched one auction stand for all: every outcome of the
\* listing stage occurs in them.
C26_CleanIffNoSignedListing ==
    (fn = "scan_and_find" /\ pc = "done" /\ RequestsOf("getGifts") # <<>> /\ Len(auctions) = 1)
    => \A recorded \in {ScanCleanStatus(tonnel_gifts).out} :
          /\ DictKeys(recorded) = SampledKeys(tonnel_gifts)
          /\ \A k \in SampledKeys(tonnel_gifts) :
                DictGet(recorded, k, TRUE)
                    = \A i \in ListingsOfKey(tonnel_gifts, k) :
                          ~Truthy(tonnel_gifts[i].signature)
          /\ recorded = CleanStatusFor(tonnel_gifts,
                            [i \in DOMAIN tonnel_gifts |-> GiftShortName(tonnel_gifts[i]).name])
          /\ \A trace \in {FlagsTrace(tonnel_gifts, 1, <<>>)} :
                /\ Len(trace) = Len(tonnel_gifts)
                /\ trace # <<>> => trace[Len(trace)] = recorded
                /\ \A n \in 1..(Len(trace) - 1) :
                      \A k \in DictKeys(trace[n]) :
                         ~DictGet(trace[n], k, TRUE) => ~DictGet(trace[n + 1], k, TRUE)
          /\ SameFlags(recorded, ScanCleanStatus(ReverseOrder(tonnel_gifts)).out)
          /\ \A n \in 1..(Len(tonnel_gifts) - 1) :
                tonnel_gifts[n] # tonnel_gifts[n + 1]
                => SameFlags(recorded, ScanCleanStatus(SwapAt(tonnel_gifts, n)).out)

\* C26 witness: a finished scan that sampled an unsigned listing "ab" and
\* then a signed listing "A-b" of the same key, and recorded the key dirty
C26_Witness ==
    /\ fn = "scan_and_find" /\ pc = "done" /\ Len(auctions) = 1
    /\ Len(tonnel_gifts) = 2
    /\ tonnel_gifts[1].name = PyStr(<<"a", "b">>) /\ ~Truthy(tonnel_gifts[1].signature)
    /\ tonnel_gifts[2].name = PyStr(<<"A", "-", "b">>) /\ Truthy(tonnel_gifts[2].signature)
    /\ ScanCleanStatus(tonnel_gifts).out = <<Entry(<<"a", "b">>, FALSE)>>
    /\ FlagsAfter(1) = <<Entry(<<"a", "b">>, TRUE)>>


\* the prices a search reply quotes: those of its mappings whose price parses
QuotedPrices(reply) ==
    IF reply.kind # "list" THEN <<>>
    ELSE LET quoted == SelectSeq(reply.items, LAMBDA item : item.isdict /\ Parses(item.price))
         IN  [i \in DOMAIN quoted |-> Float(quoted[i].price).v]

\* the quoted prices of a reply that lie in the band of the scan
PricesInBand(reply) ==
    SelectSeq(QuotedPrices(reply), LAMBDA p : min_price <= p /\ p <= max_price)

\* the replies to the depth lookups so far, lookup i being for model_keys[i]
Lookups == RequestsOf("search")

\* C27: the depth map holds exactly one entry for each key looked up so far,
\* and when the depth query has ended one for every requested key; in an
\* entry a present second price comes with a present floor price and every
\* present price lies within [min_price, max_price]; the entry of a key
\* whose lookup raised is (absent, absent), the entry of every other key
\* holds the first two in-band prices of its own reply, and a raised lookup
\* does not end the scan.
C27_DepthMapPerKey ==
    (fn = "scan_and_find" /\ Lookups # <<>>)
    => /\ Len(portals_prices) = Len(Lookups)
       /\ \A i \in DOMAIN Lookups : portals_prices[i].k = model_keys[i]
       /\ pc # "search" => Len(portals_prices) = Len(model_keys)
       /\ \A i \in DOMAIN Lookups :
             \A entry \in {portals_prices[i].v} :
                /\ entry.second.some => entry.floor.some
                /\ entry.floor.some
                      => (min_price <= entry.floor.v /\ entry.floor.v <= max_price)
                /\ entry.second.some
                      => (min_price <= entry.second.v /\ entry.second.v <= max_price)
                /\ Lookups[i].kind = "raise"
                      => (~entry.floor.some /\ ~entry.second.some)
                /\ \A found \in {PricesInBand(Lookups[i])} :
                      /\ entry.floor.some = (Len(found) >= 1)
                      /\ entry.second.some = (Len(found) >= 2)
                      /\ entry.floor.some => entry.floor.v = found[1]
                      /\ entry.second.some => entry.second.v = found[2]
       /\ pc = "raised" => LastOf(calls).fn # "search"
       /\ (LastOf(calls).fn = "search" /\ LastOf(calls).kind = "raise")
             => pc \in {"search", "gifts"}

\* C27 witness: a scan of two keys whose first lookup raised and whose second
\* lookup quoted 19 and 25 with the band [0, 20]: the first key has
\* (absent, absent), the second (19, absent), and the scan went on
C27_Witness ==
    /\ fn = "scan_and_find" /\ pc = "done"
    /\ model_keys = <<KeyAbM, KeyBM>>
    /\ Len(Lookups) = 2
    /\ Lookups[1].kind = "raise"
    /\ Lookups[2].items = <<Listing(PyNum(19)), Listing(PyNum(25))>>
    /\ max_price = 20
    /\ portals_prices = <<Entry(KeyAbM, Depth(Absent, Absent)),
                          Entry(KeyBM, Depth(Some(19), Absent))>>

====
